---- MODULE Spec2Model ----
(***************************************************************************)
(* CostAgent: the request pipeline of AgentLoop.run_task                   *)
(*   compress -> route -> estimate -> budget gate -> [execute + quality    *)
(*   retry] -> log_run -> cumulative_cost                                  *)
(* together with its collaborators (SemanticCompressor, ProbabilisticRouter,*)
(* TokenEstimator, QualityEvaluator, LogHandler / memory.db).              *)
(*                                                                         *)
(* Conventions.  A Python str that the code builds or inspects is a        *)
(* sequence of pieces whose concatenation is the text (a prompt or a model *)
(* reply is a sequence of one-character strings).  An optional number is   *)
(* Nil (None) or Some(n).  An optional string is None or the string.       *)
(* Money is counted in integer cost units.                                 *)
(***************************************************************************)
EXTENDS Integers, Sequences, FiniteSets, TLC

None == "None"
Nil == <<>>
Some(x) == <<x>>
Val(o) == o[1]

Min(a, b) == IF a <= b THEN a ELSE b
Max(a, b) == IF a >= b THEN a ELSE b

RECURSIVE SumSeq(_)
SumSeq(s) == IF s = <<>> THEN 0 ELSE Head(s) + SumSeq(Tail(s))

(***************************************************************************)
(* Text helpers: what Python's re.sub(r'\s+', ' ', t), str.strip,          *)
(* str.split, str.lower and ' '.join do on a sequence of characters.       *)
(***************************************************************************)
IsSpace(c) == c \in {" ", "\n"}

RECURSIVE DropSpaces(_)
DropSpaces(t) ==
    IF t # <<>> /\ IsSpace(Head(t)) THEN DropSpaces(Tail(t)) ELSE t

RECURSIVE CollapseWs(_)
CollapseWs(t) ==
    IF t = <<>> THEN <<>>
    ELSE IF IsSpace(Head(t))
         THEN <<" ">> \o CollapseWs(DropSpaces(Tail(t)))
         ELSE <<Head(t)>> \o CollapseWs(Tail(t))

RECURSIVE DropTrailingSpaces(_)
DropTrailingSpaces(t) ==
    IF t # <<>> /\ IsSpace(t[Len(t)])
    THEN DropTrailingSpaces(SubSeq(t, 1, Len(t) - 1))
    ELSE t

Strip(t) == DropTrailingSpaces(DropSpaces(t))

RECURSIVE TakeWord(_)
TakeWord(t) ==
    IF t = <<>> \/ IsSpace(Head(t)) THEN <<>>
    ELSE <<Head(t)>> \o TakeWord(Tail(t))

RECURSIVE Split(_)
Split(t) ==
    LET u == DropSpaces(t)
    IN  IF u = <<>> THEN <<>>
        ELSE LET w == TakeWord(u)
             IN  <<w>> \o Split(SubSeq(u, Len(w) + 1, Len(u)))

LowerChar(c) == IF c = "A" THEN "a" ELSE IF c = "N" THEN "n" ELSE c

Lower(w) == [i \in 1..Len(w) |-> LowerChar(w[i])]

RECURSIVE Join(_)
Join(ws) ==
    IF ws = <<>> THEN <<>>
    ELSE IF Len(ws) = 1 THEN Head(ws)
    ELSE Head(ws) \o <<" ">> \o Join(Tail(ws))

\* a filter that drops the first stopword only
RECURSIVE FilterFirstStopword(_, _)
FilterFirstStopword(ws, stop) ==
    IF ws = <<>> THEN <<>>
    ELSE IF Lower(Head(ws)) \in stop
         THEN Tail(ws)
         ELSE <<Head(ws)>> \o FilterFirstStopword(Tail(ws), stop)

RECURSIVE FilterWords(_, _)
FilterWords(ws, stop) ==
    IF ws = <<>> THEN <<>>
    ELSE IF Lower(Head(ws)) \in stop
         THEN FilterWords(Tail(ws), stop)
         ELSE <<Head(ws)>> \o FilterWords(Tail(ws), stop)

(***************************************************************************)
(* SemanticCompressor                                                      *)
(***************************************************************************)
\* self.stopwords, restricted to the words that can be spelled with the
\* characters the model's texts are drawn from.
stopwords == { <<"a">>, <<"a", "n">> }

\* compress(prompt_text, max_tokens): max_tokens is Nil or Some(n).
compress(prompt_text, max_tokens) ==
    LET text  == Strip(CollapseWs(prompt_text))
        words == FilterWords(Split(text), stopwords)
        compressed_text == Join(words)
    IN  IF max_tokens # Nil /\ Val(max_tokens) # 0
        THEN LET toks == Split(compressed_text)
             IN  Join(SubSeq(toks, 1, Min(Val(max_tokens), Len(toks))))
        ELSE compressed_text

(***************************************************************************)
(* Model table (config.providers.PRESETS) and ProbabilisticRouter          *)
(* A table is the dict in insertion order: a sequence of [id, level].      *)
(***************************************************************************)
GoogleTable ==
    << [id |-> "gemini/gemini-2.0-flash", level |-> 1],
       [id |-> "gemini/gemini-2.5-flash", level |-> 2],
       [id |-> "gemini/gemini-2.5-pro",   level |-> 3] >>

DeepseekTable ==
    << [id |-> "deepseek/deepseek-chat",     level |-> 1],
       [id |-> "deepseek/deepseek-reasoner", level |-> 3] >>

\* a table with no entry of level 1
UpperTable ==
    << [id |-> "gemini/gemini-2.5-flash", level |-> 2],
       [id |-> "gemini/gemini-2.5-pro",   level |-> 3] >>

TableIds(table) == { table[i].id : i \in 1..Len(table) }

\* the configured level of a model id of the table
LevelOf(table, id) ==
    LET i == CHOOSE j \in 1..Len(table) : table[j].id = id IN table[i].level

\* max(self.model_config, key=level): the first key, in table order, whose
\* level is the largest.
MaxLevelFirst(table) ==
    LET top == CHOOSE l \in { table[i].level : i \in 1..Len(table) } :
                   \A i \in 1..Len(table) : table[i].level <= l
        i   == CHOOSE j \in 1..Len(table) :
                   /\ table[j].level = top
                   /\ \A k \in 1..(j - 1) : table[k].level # top
    IN  table[i].id

\* route_task with the fallback replaced by the first key of the table
RouteFirstMatchOnly(table, task_level) ==
    LET hits == { i \in 1..Len(table) : table[i].level = task_level }
    IN  IF hits # {}
        THEN table[CHOOSE i \in hits : \A k \in hits : i <= k].id
        ELSE table[1].id

\* ProbabilisticRouter.route_task on a non-empty table
route_task(table, task_level) ==
    LET hits == { i \in 1..Len(table) : table[i].level = task_level }
    IN  IF hits # {}
        THEN table[CHOOSE i \in hits : \A k \in hits : i <= k].id
        ELSE MaxLevelFirst(table)

\* get_model_prices(): the table the environment configures, or the
\* exception raised when no provider and no models_price.json is found
PricesOk(table) == [ok |-> TRUE, table |-> table, exc |-> None]

PricesMissing == [ok |-> FALSE, table |-> <<>>, exc |-> "FileNotFoundError"]

\* __init__ keeping the table it was given, empty or not
RouterInitKeepsGiven(model_config, prices) == PricesOk(model_config)

\* ProbabilisticRouter.__init__: self.model_config = model_config or
\* get_model_prices(); an empty dict is falsy
RouterInit(model_config, prices) ==
    IF model_config # <<>> THEN PricesOk(model_config) ELSE prices

\* ProbabilisticRouter(model_config).route_task(task_level): the id, or the
\* exception and the call that raised it (max() of an empty dict raises
\* ValueError)
RouteCall(model_config, prices, task_level) ==
    LET r == RouterInit(model_config, prices)
    IN  IF ~r.ok
        THEN [raised |-> TRUE, at |-> "__init__", exc |-> r.exc, id |-> None]
        ELSE IF r.table = <<>>
        THEN [raised |-> TRUE, at |-> "route_task", exc |-> "ValueError", id |-> None]
        ELSE [raised |-> FALSE, at |-> None, exc |-> None,
              id |-> route_task(r.table, task_level)]

(***************************************************************************)
(* TokenEstimator and the oracles it calls                                 *)
(***************************************************************************)
\* litellm.token_counter: the tokenizer oracle, here one token per word.
count_tokens(text, model_name) == Len(Split(text))

\* The pricing oracle's table, per token: <<prompt price, completion price>>.
\* A model id outside its domain is unknown to the oracle.
Pricing ==
    ( "gemini/gemini-2.0-flash"    :> <<1, 1>> @@
      "gemini/gemini-2.5-flash"    :> <<2, 2>> @@
      "gemini/gemini-2.5-pro"      :> <<4, 4>> @@
      "deepseek/deepseek-chat"     :> <<1, 1>> @@
      "deepseek/deepseek-reasoner" :> <<4, 4>> @@
      "gpt-4o"                     :> <<2, 3>> )

\* model ids for which the pricing oracle fails with something other than
\* its NotFoundError
BrokenPricing == { "local/broken" }

\* litellm.cost_per_token: [ok |-> FALSE] stands for the exception it raises,
\* exc for that exception's type.
cost_per_token(model, prompt_tokens, completion_tokens) ==
    IF model \in DOMAIN Pricing
    THEN [ok |-> TRUE, exc |-> None,
          prompt_cost     |-> prompt_tokens * Pricing[model][1],
          completion_cost |-> completion_tokens * Pricing[model][2]]
    ELSE [ok |-> FALSE,
          exc |-> IF model \in BrokenPricing THEN "RuntimeError" ELSE "NotFoundError",
          prompt_cost |-> 0, completion_cost |-> 0]

\* an except clause that names the oracle's NotFoundError alone
CatchesNotFoundOnly(exc_type) == exc_type = "NotFoundError"

\* except (litellm.exceptions.NotFoundError, Exception)
CatchesPricingError(exc_type) == TRUE

\* estimate with the total taken from the prompt cost alone
EstimateTotalPromptOnly(prompt_text, expected_output_tokens, model_name) ==
    LET prompt_tokens == count_tokens(prompt_text, model_name)
        priced == cost_per_token(model_name, prompt_tokens, expected_output_tokens)
    IN  [model           |-> model_name,
         raised          |-> None,
         prompt_tokens   |-> prompt_tokens,
         output_tokens   |-> expected_output_tokens,
         prompt_cost     |-> priced.prompt_cost,
         completion_cost |-> priced.completion_cost,
         total_cost      |-> priced.prompt_cost]

\* TokenEstimator.estimate; raised names the exception that leaves it, None
\* when it returns
estimate(prompt_text, expected_output_tokens, model_name) ==
    LET prompt_tokens == count_tokens(prompt_text, model_name)
        priced == cost_per_token(model_name, prompt_tokens, expected_output_tokens)
        prompt_cost     == IF priced.ok THEN priced.prompt_cost ELSE 0
        completion_cost == IF priced.ok THEN priced.completion_cost ELSE 0
    IN  [model           |-> model_name,
         raised          |-> IF priced.ok \/ CatchesPricingError(priced.exc)
                             THEN None ELSE priced.exc,
         prompt_tokens   |-> prompt_tokens,
         output_tokens   |-> expected_output_tokens,
         prompt_cost     |-> prompt_cost,
         completion_cost |-> completion_cost,
         total_cost      |-> prompt_cost + completion_cost]

(***************************************************************************)
(* QualityEvaluator                                                        *)
(*                                                                         *)
(* A judge reply text is described by what json.loads and the regex make   *)
(* of it:                                                                  *)
(*   json  "invalid"  json.loads raises JSONDecodeError                    *)
(*         "nonobj"   valid JSON that is no object (a list, a number, ...) *)
(*         "obj"      a JSON object; key says what data["score"] is:       *)
(*                    "absent", "null", "word" (a non-numeric string) or   *)
(*                    "int" (int(...) succeeds and gives n)                *)
(*   re    whether re.search('"?score"?\s*[:=]\s*(\d+)') matches, and the  *)
(*         number it captures                                              *)
(***************************************************************************)
JudgeText(json, key, n, has_reason, re_match, re_n) ==
    [json |-> json, key |-> key, n |-> n, has_reason |-> has_reason,
     re_match |-> re_match, re_n |-> re_n]

\* the exceptions _parse_score catches around the JSON attempt
ParseCaught == {"JSONDecodeError", "KeyError", "ValueError"}

\* json.loads(raw.strip()); int(data["score"]), data.get("reason", ""):
\* the value, or the exception the attempt raises
JsonAttempt(raw) ==
    CASE raw.json = "invalid" -> [ok |-> FALSE, exc |-> "JSONDecodeError"]
      [] raw.json = "nonobj"  -> [ok |-> FALSE, exc |-> "TypeError"]
      [] raw.key = "absent"   -> [ok |-> FALSE, exc |-> "KeyError"]
      [] raw.key = "null"     -> [ok |-> FALSE, exc |-> "TypeError"]
      [] raw.key = "word"     -> [ok |-> FALSE, exc |-> "ValueError"]
      [] OTHER -> [ok |-> TRUE, exc |-> None, score |-> raw.n,
                   reason |-> IF raw.has_reason THEN <<"reason">> ELSE <<"">>]

\* _parse_score with min(.., 10) applied to the JSON score as well
ParseScoreCapsJson(raw) ==
    LET j == JsonAttempt(raw)
    IN  IF j.ok THEN [ok |-> TRUE, exc |-> None, score |-> Min(j.score, 10), reason |-> j.reason]
        ELSE IF j.exc \notin ParseCaught THEN [ok |-> FALSE, exc |-> j.exc, score |-> 0, reason |-> <<>>]
        ELSE IF raw.re_match
             THEN [ok |-> TRUE, exc |-> None, score |-> Min(raw.re_n, 10), reason |-> <<"raw">>]
             ELSE [ok |-> TRUE, exc |-> None, score |-> 10, reason |-> <<"parse_error: ", "raw">>]

\* QualityEvaluator._parse_score: [ok |-> FALSE, exc] is an exception that
\* leaves _parse_score.
ParseScore(raw) ==
    LET j == JsonAttempt(raw)
    IN  IF j.ok THEN [ok |-> TRUE, exc |-> None, score |-> j.score, reason |-> j.reason]
        ELSE IF j.exc \notin ParseCaught THEN [ok |-> FALSE, exc |-> j.exc, score |-> 0, reason |-> <<>>]
        ELSE IF raw.re_match
             THEN [ok |-> TRUE, exc |-> None, score |-> Min(raw.re_n, 10), reason |-> <<"raw">>]
             ELSE [ok |-> TRUE, exc |-> None, score |-> 10, reason |-> <<"parse_error: ", "raw">>]

\* What the judge call does: litellm.completion raises (call = "raise"), or
\* returns a reply whose content is `raw` (content None or "" is the text
\* EmptyJudgeText) and whose cost litellm.completion_cost computes
\* (cost_ok = FALSE: completion_cost raises).
JudgeBehaviour(call, raw, cost_ok, cost) ==
    [call |-> call, raw |-> raw, cost_ok |-> cost_ok, cost |-> cost]

EmptyJudgeText == JudgeText("invalid", "absent", 0, FALSE, FALSE, 0)

\* the body of evaluate's try block
EvaluateBody(judge) ==
    IF judge.call = "raise" THEN [ok |-> FALSE, exc |-> "Exception", msg |-> "network error"]
    ELSE IF ~judge.cost_ok THEN [ok |-> FALSE, exc |-> "NotFoundError", msg |-> "model not mapped"]
    ELSE LET p == ParseScore(judge.raw)
         IN  IF ~p.ok THEN [ok |-> FALSE, exc |-> p.exc, msg |-> "bad reply"]
             ELSE [ok |-> TRUE, exc |-> None, msg |-> None, score |-> p.score,
                   reason |-> p.reason, eval_cost |-> judge.cost]

\* evaluate with a handler that lets a TypeError through
EvaluateCatchesParseErrorsOnly(judge) ==
    LET b == EvaluateBody(judge)
    IN  IF b.ok
        THEN [raised |-> FALSE, exc |-> None, score |-> b.score, reason |-> b.reason,
              eval_cost |-> b.eval_cost]
        ELSE IF b.exc = "TypeError"
        THEN [raised |-> TRUE, exc |-> b.exc, score |-> 0, reason |-> <<>>, eval_cost |-> 0]
        ELSE [raised |-> FALSE, exc |-> None, score |-> 10,
              reason |-> <<"eval_error: ", b.msg>>, eval_cost |-> 0]

\* QualityEvaluator.evaluate: `except Exception` catches whatever the body
\* raises; raised = TRUE would be an exception leaving evaluate.
evaluate(judge) ==
    LET b == EvaluateBody(judge)
    IN  IF b.ok
        THEN [raised |-> FALSE, exc |-> None, score |-> b.score, reason |-> b.reason,
              eval_cost |-> b.eval_cost]
        ELSE [raised |-> FALSE, exc |-> None, score |-> 10,
              reason |-> <<"eval_error: ", b.msg>>, eval_cost |-> 0]

(***************************************************************************)
(* Configuration (config.config) read by AgentLoop.__init__                *)
(***************************************************************************)
\* get_budget(): BUDGET_PER_CALL defaults to "10.0"
DefaultBudget == 10

\* get_quality_threshold without the clamp
GetThresholdUnclamped(raw) == raw

\* get_quality_threshold(): max(1, min(10, int(raw)))
get_quality_threshold(raw) == Max(1, Min(10, raw))

\* get_quality_max_retries without the clamp
GetMaxRetriesUnclamped(raw) == raw

\* get_quality_max_retries(): max(0, min(5, int(raw)))
get_quality_max_retries(raw) == Max(0, Min(5, raw))

\* QualityEvaluator.__init__: judge_model or DEFAULT_JUDGE_MODEL
DEFAULT_JUDGE_MODEL == "gemini/gemini-2.0-flash"

\* AgentLoop.__init__ under an environment: the instance's fields
AgentLoopInit(table, enabled, raw_threshold, raw_retries) ==
    [budget               |-> DefaultBudget,
     table                |-> table,
     quality_eval_enabled |-> enabled,
     quality_threshold    |-> get_quality_threshold(raw_threshold),
     quality_max_retries  |-> get_quality_max_retries(raw_retries),
     judge_model          |-> DEFAULT_JUDGE_MODEL]

(***************************************************************************)
(* Bounds and input sets                                                   *)
(***************************************************************************)
NumThreads == 2
MaxOutTokens == 2
MaxRawRetries == 6
MaxPriorRows == 1

Threads == 1..NumThreads

Levels == 1..3

\* "a x" compresses to "x"; "x\nx An" compresses to "x x"
Prompts == { <<"a", " ", "x">>, <<"x", "\n", "x", " ", "A", "n">> }

\* model_override: None, a priced model outside the table, an unpriced model
Overrides == { None, "gpt-4o", "local/unpriced" }

BudgetOverrides == { Nil, Some(0), Some(4) }

Request(prompt, tokens, level, override, budget, execute) ==
    [prompt |-> prompt, expected_output_tokens |-> tokens, task_level |-> level,
     model_override |-> override, budget_override |-> budget, execute |-> execute]

\* requests and configurations of the pipeline specification
Requests ==
    { Request(pr, t, l, o, b, e) :
        pr \in Prompts, t \in 1..MaxOutTokens, l \in Levels, o \in Overrides,
        b \in BudgetOverrides, e \in BOOLEAN }

Configs ==
    { AgentLoopInit(tb, en, 7, 1) : tb \in {GoogleTable, DeepseekTable}, en \in BOOLEAN }

\* requests and configurations of the quality-loop specification
QRequests ==
    { Request(<<"x">>, 1, l, o, Nil, TRUE) : l \in Levels, o \in {None, "gpt-4o"} }

QConfigs ==
    { AgentLoopInit(tb, TRUE, th, r) :
        tb \in {GoogleTable, DeepseekTable}, th \in {0, 7, 11},
        r \in {0 - 1, 0, 1, 2, MaxRawRetries} } \cup
    { AgentLoopInit(tb, FALSE, 7, r) :
        tb \in {GoogleTable, DeepseekTable}, r \in {0, 2, MaxRawRetries} }

\* requests and configurations of the concurrent specification
CRequests ==
    { Request(<<"x">>, t, 1, None, Nil, FALSE) : t \in {1, 2} }

CConfigs == { AgentLoopInit(GoogleTable, FALSE, 7, 1) }

\* What the completion provider can do on one call: raise, or return a
\* reply (content None, whitespace only, or text) with its cost and usage.
\* An exception: its type, the lines of str(e), and the number of arguments
\* it was built with, which repr(e) shows: Exception() against Exception('')
Exc(type, msg) == [type |-> type, msg |-> msg, args |-> 1]

\* an exception built without arguments: str(e) is empty
ExcNoArgs(type) == [type |-> type, msg |-> <<"">>, args |-> 0]

NoExc == Exc(None, <<>>)

ProviderErrors ==
    { Exc("AuthenticationError", <<"invalid api key">>),
      Exc("APIConnectionError", <<"connection refused", "Traceback (most recent call last)">>),
      Exc("Exception", <<"">>),
      ExcNoArgs("Exception") }

ProviderReplies ==
    { [content |-> Nil,                cost |-> 0, usage |-> Nil],
      [content |-> Some(<<" ">>),      cost |-> 1, usage |-> Some(0)],
      [content |-> Some(<<"o", "k">>), cost |-> 5, usage |-> Some(8)] }

TokenizerError == Exc("ValueError", <<"tokenizer failed">>)

StoreError == Exc("OperationalError", <<"database is locked">>)

\* sqlite3.ProgrammingError of a connection used outside the thread that
\* opened it; the message goes on with the two thread ids
ThreadError ==
    Exc("ProgrammingError",
        <<"SQLite objects created in a thread can only be used in that same thread.">>)

\* What the judge can do on one call, in the pipeline specifications
JudgeBehaviours ==
    { JudgeBehaviour("raise", EmptyJudgeText, TRUE, 0) } \cup
    { JudgeBehaviour("reply", JudgeText("obj", "int", n, TRUE, TRUE, n), TRUE, 1) : n \in {3, 9} } \cup
    { JudgeBehaviour("reply", JudgeText("invalid", "absent", 0, FALSE, FALSE, 0), TRUE, 1),
      JudgeBehaviour("reply", JudgeText("obj", "null", 0, FALSE, FALSE, 0), TRUE, 1) }

(***************************************************************************)
(* State                                                                   *)
(***************************************************************************)
VARIABLES
    store,         \* the task_runs table: the rows in insertion order
    last_rowid,    \* the cached connection's last_insert_rowid()
    pc,            \* where each worker thread is in run_task
    req,           \* the arguments of the thread's run_task call
    cfg,           \* the AgentLoop instance the call runs on
    loc,           \* run_task's local variables of the execute branch
    result,        \* the result dict of the try block
    error_result,  \* the error_result dict of the except branch
    exc,           \* the exception the except branch is handling
    raised,        \* the exception that left run_task
    calls,         \* history: the provider calls the invocation has made
    fn,            \* a pure function under check: its name, argument and value
    http,          \* the HTTP response the API sent for the worker's request
    dbinit         \* memory.db's module state: _INIT_DONE, _INIT_LOCK and the schema

vars == <<store, last_rowid, pc, req, cfg, loc, result, error_result, exc, raised, calls, fn, http, dbinit>>

Truthy(s) == s \notin {None, ""}

NoLoc ==
    [current_level |-> 0, current_model |-> None, quality_score |-> Nil,
     quality_reason |-> <<>>, quality_retries |-> 0, total_eval_cost |-> 0,
     original_model |-> None, max_attempts |-> 0, attempt |-> 0,
     raw_content |-> <<>>, actual_cost |-> Nil, usage |-> Nil]

\* a dict with none of the keys set.  For quality_reason and error_message
\* <<>> is None, and the empty string is <<"">>.
NoResult ==
    [model |-> None, prompt_tokens |-> Nil, output_tokens |-> Nil,
     prompt_cost |-> Nil, completion_cost |-> Nil, total_cost |-> Nil,
     compressed_prompt |-> <<>>, budget_exceeded |-> FALSE, budget |-> Nil,
     trace_id |-> Nil, router_reason |-> <<>>, raw_prompt_len |-> Nil,
     compressed_prompt_len |-> Nil, response |-> <<>>, actual_cost |-> Nil,
     actual_output_tokens |-> Nil, quality_score |-> Nil, quality_reason |-> <<>>,
     quality_retries |-> Nil, quality_eval_cost |-> Nil, original_model |-> None,
     status |-> None, error_type |-> None, error_message |-> <<>>,
     log_id |-> Nil, cumulative_cost |-> Nil,
     tenant_id |-> None, caller_id |-> None]

\* effective_budget = budget_override if budget_override is not None else self.budget
EffectiveBudget(r, c) ==
    IF r.budget_override # Nil THEN Val(r.budget_override) ELSE c.budget

\* trace_id = str(uuid.uuid4()): one fresh id per invocation
TraceId(p) == p

(***************************************************************************)
(* memory.db and LogHandler                                                *)
(***************************************************************************)
\* LogHandler.log_run: the record handed to insert_run
LogRecord(run_result, task_level) ==
    [trace_id              |-> run_result.trace_id,
     tenant_id             |-> run_result.tenant_id,
     caller_id             |-> run_result.caller_id,
     model                 |-> run_result.model,
     task_level            |-> task_level,
     status                |-> run_result.status,
     error_type            |-> run_result.error_type,
     error_message         |-> run_result.error_message,
     prompt_tokens         |-> Val(run_result.prompt_tokens),
     output_tokens         |-> Val(run_result.output_tokens),
     prompt_cost           |-> Val(run_result.prompt_cost),
     completion_cost       |-> Val(run_result.completion_cost),
     total_cost            |-> Val(run_result.total_cost),
     budget                |-> run_result.budget,
     budget_exceeded       |-> IF run_result.budget_exceeded THEN 1 ELSE 0,
     raw_prompt_len        |-> Val(run_result.raw_prompt_len),
     compressed_prompt_len |-> Val(run_result.compressed_prompt_len),
     router_reason         |-> run_result.router_reason,
     compressed_prompt     |-> run_result.compressed_prompt,
     actual_cost           |-> run_result.actual_cost,
     actual_output_tokens  |-> run_result.actual_output_tokens]

\* the id SQLite gives the next row of an INTEGER PRIMARY KEY table
NextRowId(rows) ==
    IF rows = <<>> THEN 1 ELSE rows[Len(rows)].id + 1

\* an insert that puts the new row before the others
InsertRowFirst(rows, record) ==
    <<[id |-> NextRowId(rows)] @@ record>> \o rows

\* insert_run, first statement: db["task_runs"].insert(run_data)
InsertRow(rows, record) ==
    Append(rows, [id |-> NextRowId(rows)] @@ record)

\* get_cumulative_cost reading the newest row only
CumulativeCostOfLastRow(rows) ==
    IF rows = <<>> THEN 0 ELSE rows[Len(rows)].total_cost

\* get_cumulative_cost: SELECT COALESCE(SUM(total_cost), 0.0) FROM task_runs
get_cumulative_cost(rows) ==
    SumSeq([i \in 1..Len(rows) |-> rows[i].total_cost])

\* a row left by an earlier session
PriorRow(i) ==
    [id |-> i] @@
    LogRecord([NoResult EXCEPT !.trace_id = Some(0), !.model = "gemini/gemini-2.0-flash",
                 !.prompt_tokens = Some(1), !.output_tokens = Some(2),
                 !.prompt_cost = Some(1), !.completion_cost = Some(2),
                 !.total_cost = Some(3), !.budget = Some(DefaultBudget),
                 !.raw_prompt_len = Some(1), !.compressed_prompt_len = Some(1),
                 !.compressed_prompt = <<"x">>, !.status = "dry_run"], 1)

(***************************************************************************)
(* Init                                                                    *)
(***************************************************************************)
\* no response sent yet
NoHttp == [status_code |-> 0, body |-> <<>>]

NoFn == [op |-> "none", arg |-> <<>>, out |-> <<>>, done |-> FALSE]

\* memory.db's module state once init_db has completed in the thread
\* `owner`: _INIT_DONE is set, _INIT_LOCK is free (0: no holder), the cached
\* connection is the one that thread opened, both tables exist and meta
\* holds one schema_version row; body_runs counts the completions of
\* init_db's body.  schema_version is the number of rows the connection
\* sees, uncommitted the number of them that init_db inserted in this
\* process by db.execute, in a transaction that is still open
Initialised(owner, open) ==
    [INIT_DONE |-> TRUE, INIT_LOCK |-> 0, conn_owner |-> Some(owner),
     tables |-> {"task_runs", "meta"}, schema_version |-> 1,
     uncommitted |-> open, body_runs |-> 1]

\* the thread that ran init_db: 0 is one that serves no request (the
\* lifespan hook's), the others are the workers
ConnOwners == 0..NumThreads

\* a connection that any thread may use
SameThreadUnchecked(owner, p) == TRUE

\* the connection sqlite3.connect opened (check_same_thread is left at its
\* default) is used in the thread that opened it
SameThread(owner, p) == owner = Some(p)

\* get_db: the connection cached for the path, opened by the calling thread
\* when none is cached
get_db(owner, p) == IF owner = Nil THEN Some(p) ELSE owner

\* table.insert runs its INSERT inside `with db.conn:`, which commits the
\* connection's open transaction when the statement succeeded
Commit(d) == [d EXCEPT !.uncommitted = 0]

\* ... and rolls it back when the statement raised: the schema_version row
\* that init_db inserted and nothing committed since goes with it
Rollback(d) ==
    [d EXCEPT !.schema_version = @ - d.uncommitted, !.uncommitted = 0]

\* where insert_run's table.insert can raise: 1 in the lookup of the table
\* that comes before the transaction, 2 in the INSERT inside `with db.conn:`,
\* 3 in the COMMIT on leaving that block, after the INSERT has run
InsertFailPoints == 1..3

\* the module state after insert_run failed at fail_at in thread p: a
\* failing INSERT or COMMIT rolls back, and in a thread other than the
\* connection's the first statement is refused, before any transaction
AfterFailedInsert(d, p, fail_at) ==
    IF SameThread(d.conn_owner, p) /\ fail_at \in 2..3 THEN Rollback(d) ELSE d

\* last_insert_rowid() of the connection after insert_run failed at fail_at
\* in thread p: the INSERT that ran before a failing COMMIT has set it, and
\* the rollback of the row does not set it back
RowIdAfterFailedInsert(rows, rowid, owner, p, fail_at) ==
    IF SameThread(owner, p) /\ fail_at = 3 THEN NextRowId(rows) ELSE rowid

\* what a failing statement on the cached connection raises in thread p
StoreRaises(p) ==
    IF SameThread(dbinit.conn_owner, p) THEN StoreError ELSE ThreadError

\* every worker idle, the store holding the rows of earlier sessions, the
\* database initialised by some thread; last_insert_rowid() of the new
\* connection is 0, or 1 when init_db inserted the schema_version row, which
\* is then not yet committed
InitPipeline ==
    /\ \E n \in 0..MaxPriorRows : store = [i \in 1..n |-> PriorRow(i)]
    /\ pc = [p \in Threads |-> "idle"]
    /\ req = [p \in Threads |-> Request(<<>>, 0, 0, None, Nil, FALSE)]
    /\ cfg = [p \in Threads |-> AgentLoopInit(<<>>, FALSE, 0, 0)]
    /\ loc = [p \in Threads |-> NoLoc]
    /\ result = [p \in Threads |-> NoResult]
    /\ error_result = [p \in Threads |-> NoResult]
    /\ exc = [p \in Threads |-> NoExc]
    /\ raised = [p \in Threads |-> NoExc]
    /\ calls = [p \in Threads |-> <<>>]
    /\ http = [p \in Threads |-> NoHttp]
    /\ \E owner \in ConnOwners, open \in 0..1 :
         /\ last_rowid = open
         /\ dbinit = Initialised(owner, open)

Init == InitPipeline /\ fn = NoFn

(***************************************************************************)
(* run_task, step by step                                                  *)
(***************************************************************************)
\* A request reaches an idle worker: AgentLoop() is built from the
\* environment and run_task is entered with the request's arguments.
Start(p, R, C) ==
    /\ pc[p] = "idle"
    /\ \A q \in Threads : q < p => pc[q] # "idle"
    /\ \E r \in R, c \in C :
        /\ req' = [req EXCEPT ![p] = r]
        /\ cfg' = [cfg EXCEPT ![p] = c]
    /\ pc' = [pc EXCEPT ![p] = "prepare"]
    /\ UNCHANGED <<store, last_rowid, loc, result, error_result, exc, raised, calls, fn, http, dbinit>>

\* the model taken from the router whatever the override
ChooseModelRouterOnly(r, c, level) == route_task(c.table, level)

\* model_name = model_override or self.router.route_task(task_level)
ChooseModel(r, c, level) ==
    IF Truthy(r.model_override) THEN r.model_override
    ELSE route_task(c.table, level)

RouterReason(r) ==
    IF Truthy(r.model_override) THEN <<"override:", r.model_override>>
    ELSE <<"router:level=", r.task_level>>

\* the budget check with >= in place of >
BudgetExceededOrEqual(total_cost, effective_budget) == total_cost >= effective_budget

\* budget_exceeded = estimate["total_cost"] > effective_budget
BudgetExceeded(total_cost, effective_budget) == total_cost > effective_budget

\* steps 1-5: the result dict as built before the execute decision
BaseResult(p, r, c) ==
    LET compressed == compress(r.prompt, Nil)
        model_name == ChooseModel(r, c, r.task_level)
        est        == estimate(compressed, r.expected_output_tokens, model_name)
    IN  [NoResult EXCEPT
            !.model = est.model,
            !.prompt_tokens = Some(est.prompt_tokens),
            !.output_tokens = Some(est.output_tokens),
            !.prompt_cost = Some(est.prompt_cost),
            !.completion_cost = Some(est.completion_cost),
            !.total_cost = Some(est.total_cost),
            !.compressed_prompt = compressed,
            !.budget_exceeded = BudgetExceeded(est.total_cost, EffectiveBudget(r, c)),
            !.budget = Some(EffectiveBudget(r, c)),
            !.trace_id = Some(TraceId(p)),
            !.router_reason = RouterReason(r),
            !.raw_prompt_len = Some(Len(r.prompt)),
            !.compressed_prompt_len = Some(Len(compressed))]

\* the execute decision without the budget gate
EntersExecuteIgnoringBudget(execute, budget_exceeded) == execute

\* the execute decision without the execute flag
EntersExecuteIgnoringFlag(execute, budget_exceeded) == ~budget_exceeded

\* if execute and not budget_exceeded
EntersExecute(execute, budget_exceeded) == execute /\ ~budget_exceeded

\* the placeholder without the budget case
PlaceholderAlwaysDryRun(budget_exceeded, model_name) ==
    <<"[Dry-run] Would use ", model_name>>

\* the response of the branch that makes no provider call
Placeholder(budget_exceeded, model_name) ==
    IF budget_exceeded THEN <<"[Budget exceeded] Would use ", model_name>>
    ELSE <<"[Dry-run] Would use ", model_name>>

\* the status of the branch without the budget case
StatusAlwaysDryRun(budget_exceeded) == "dry_run"

\* status = "rejected_budget" if budget_exceeded, else "dry_run"
StatusNotExecuted(budget_exceeded) ==
    IF budget_exceeded THEN "rejected_budget" ELSE "dry_run"

\* the else branch reporting the estimate as the actual cost
NotExecutedEstimateAsActual(base) ==
    [base EXCEPT
        !.response = Placeholder(base.budget_exceeded, base.model),
        !.status = StatusNotExecuted(base.budget_exceeded),
        !.actual_cost = base.total_cost]

\* the else branch of step 6
NotExecuted(base) ==
    [base EXCEPT
        !.response = Placeholder(base.budget_exceeded, base.model),
        !.status = StatusNotExecuted(base.budget_exceeded)]

\* max_attempts with one attempt more
MaxAttemptsOneMore(enabled, max_retries) ==
    IF enabled THEN 2 + max_retries ELSE 1

\* max_attempts = (1 + self.quality_max_retries) if self.quality_eval_enabled else 1
MaxAttempts(enabled, max_retries) ==
    IF enabled THEN 1 + max_retries ELSE 1

\* Steps 1-5 and the decision of step 6.  The tokenizer oracle may raise.
Prepare(p) ==
    /\ pc[p] = "prepare"
    /\ \/ /\ exc' = [exc EXCEPT ![p] = TokenizerError]
          /\ pc' = [pc EXCEPT ![p] = "except"]
          /\ UNCHANGED <<loc, result>>
       \/ LET r    == req[p]
              c    == cfg[p]
              base == BaseResult(p, r, c)
              est  == estimate(compress(r.prompt, Nil), r.expected_output_tokens,
                               ChooseModel(r, c, r.task_level))
          IN  IF est.raised # None
              THEN /\ exc' = [exc EXCEPT ![p] = Exc(est.raised, <<"pricing failed">>)]
                   /\ pc' = [pc EXCEPT ![p] = "except"]
                   /\ UNCHANGED <<loc, result>>
              ELSE
              IF EntersExecute(r.execute, base.budget_exceeded)
              THEN /\ result' = [result EXCEPT ![p] = base]
                   /\ loc' = [loc EXCEPT ![p] =
                                [NoLoc EXCEPT
                                    !.current_level = r.task_level,
                                    !.current_model = base.model,
                                    !.original_model = base.model,
                                    !.max_attempts =
                                        MaxAttempts(c.quality_eval_enabled,
                                                    c.quality_max_retries)]]
                   /\ pc' = [pc EXCEPT ![p] = "attempt"]
                   /\ exc' = exc
              ELSE /\ result' = [result EXCEPT ![p] = NotExecuted(base)]
                   /\ pc' = [pc EXCEPT ![p] = "log"]
                   /\ UNCHANGED <<loc, exc>>
    /\ UNCHANGED <<store, last_rowid, req, cfg, error_result, raised, calls, fn, http, dbinit>>

EmptyResponseMessage ==
    <<"[Empty response] Model returned no content. Try increasing --tokens or rephrasing.">>

\* the reported model taken from the last completion call made
ReportedModelLastCalled(l, history) ==
    LET done == { i \in 1..Len(history) : history[i].kind = "completion" }
    IN  history[CHOOSE i \in done : \A k \in done : k <= i].model

\* result["model"] = current_model
ReportedModel(l, history) == l.current_model

\* the reply passed on as it came
ExecutedResponseRaw(raw_content) == raw_content

\* if raw_content.strip(): the reply; else: the fixed message
ExecutedResponse(raw_content) ==
    IF Strip(raw_content) # <<>> THEN raw_content ELSE EmptyResponseMessage

\* the statements after the for loop: the executed result
Executed(base, l, history) ==
    [base EXCEPT
        !.response = ExecutedResponse(l.raw_content),
        !.actual_cost = l.actual_cost,
        !.model = ReportedModel(l, history),
        !.actual_output_tokens = l.usage,
        !.quality_score = l.quality_score,
        !.quality_reason = l.quality_reason,
        !.quality_retries = Some(l.quality_retries),
        !.quality_eval_cost = Some(l.total_eval_cost),
        !.original_model = IF l.quality_retries > 0 THEN l.original_model ELSE None,
        !.status = "executed"]

CallEvent(kind, model, content, score) ==
    [kind |-> kind, model |-> model, content |-> content, score |-> score]

\* the judge run after every completion, whatever the configuration
RunsJudgeAlways(enabled) == TRUE

\* if self.quality_eval_enabled: evaluate; else: break
RunsJudge(enabled) == enabled

\* litellm.completion(model=current_model, ...) and completion_cost: the
\* provider raises, or returns a reply.  Without quality evaluation the loop
\* breaks after the first reply.
Complete(p) ==
    /\ pc[p] = "attempt"
    /\ \/ \E e \in ProviderErrors :
            /\ calls' = [calls EXCEPT ![p] =
                            Append(@, CallEvent("completion", loc[p].current_model, <<>>, Nil))]
            /\ exc' = [exc EXCEPT ![p] = e]
            /\ pc' = [pc EXCEPT ![p] = "except"]
            /\ UNCHANGED <<loc, result>>
       \/ \E reply \in ProviderReplies :
            LET raw_content == IF reply.content = Nil THEN <<>> ELSE Val(reply.content)
                l == [loc[p] EXCEPT !.raw_content = raw_content,
                                    !.actual_cost = Some(reply.cost),
                                    !.usage = reply.usage]
                history == Append(calls[p],
                                  CallEvent("completion", loc[p].current_model, raw_content, Nil))
            IN  /\ calls' = [calls EXCEPT ![p] = history]
                /\ loc' = [loc EXCEPT ![p] = l]
                /\ exc' = exc
                /\ IF RunsJudge(cfg[p].quality_eval_enabled)
                   THEN /\ pc' = [pc EXCEPT ![p] = "judge"]
                        /\ result' = result
                   ELSE /\ pc' = [pc EXCEPT ![p] = "log"]
                        /\ result' = [result EXCEPT ![p] = Executed(@, l, history)]
    /\ UNCHANGED <<store, last_rowid, req, cfg, error_result, raised, fn, http, dbinit>>

\* the threshold test with > in place of >=
PassesStrictlyAbove(score, threshold) == score > threshold

\* if quality_score >= self.quality_threshold: break
Passes(score, threshold) == score >= threshold

\* the escalation test with the ceiling one level higher
EscalatesThroughLevel3(current_level) == current_level <= 3

\* the escalation test without the level-3 ceiling
EscalatesAtAnyLevel(current_level) == TRUE

\* if current_level < 3: escalate and continue; else: break
CanEscalate(current_level) == current_level < 3

\* self.evaluator.evaluate(compressed, raw_content) and the loop's decision
Judge(p) ==
    /\ pc[p] = "judge"
    /\ \E j \in JudgeBehaviours :
        LET ev == evaluate(j)
            c  == cfg[p]
            l0 == loc[p]
            history == Append(calls[p],
                              CallEvent("judge", c.judge_model, <<>>,
                                        IF ev.raised THEN Nil ELSE Some(ev.score)))
            l1 == [l0 EXCEPT !.quality_score = Some(ev.score),
                             !.quality_reason = ev.reason,
                             !.total_eval_cost = @ + ev.eval_cost]
            l2 == [l1 EXCEPT !.quality_retries = @ + 1,
                             !.current_level = @ + 1,
                             !.current_model = ChooseModel(req[p], c, l1.current_level + 1),
                             !.attempt = @ + 1]
        IN  /\ calls' = [calls EXCEPT ![p] = history]
            /\ IF ev.raised
               THEN /\ exc' = [exc EXCEPT ![p] = Exc(ev.exc, <<"bad reply">>)]
                    /\ pc' = [pc EXCEPT ![p] = "except"]
                    /\ UNCHANGED <<loc, result>>
               ELSE /\ exc' = exc
                    /\ IF Passes(ev.score, c.quality_threshold) \/ ~CanEscalate(l1.current_level)
                       THEN /\ loc' = [loc EXCEPT ![p] = l1]
                            /\ result' = [result EXCEPT ![p] = Executed(@, l1, history)]
                            /\ pc' = [pc EXCEPT ![p] = "log"]
                       ELSE /\ loc' = [loc EXCEPT ![p] = l2]
                            /\ IF l2.attempt < l2.max_attempts
                               THEN /\ pc' = [pc EXCEPT ![p] = "attempt"]
                                    /\ result' = result
                               ELSE /\ pc' = [pc EXCEPT ![p] = "log"]
                                    /\ result' = [result EXCEPT ![p] = Executed(@, l2, history)]
    /\ UNCHANGED <<store, last_rowid, req, cfg, error_result, raised, fn, http, dbinit>>

\* step 7, LogHandler.log_run -> insert_run: the insert appends the row and
\* commits, or the store raises: before the INSERT, at the INSERT or at the
\* COMMIT, the last two with a rollback of the open transaction
LogRun(p) ==
    /\ pc[p] = "log"
    /\ \/ /\ SameThread(dbinit.conn_owner, p)
          /\ store' = InsertRow(store, LogRecord(result[p], req[p].task_level))
          /\ last_rowid' = NextRowId(store)
          /\ dbinit' = Commit(dbinit)
          /\ pc' = [pc EXCEPT ![p] = "rowid"]
          /\ exc' = exc
       \/ /\ exc' = [exc EXCEPT ![p] = StoreRaises(p)]
          /\ \E fail_at \in InsertFailPoints :
               /\ dbinit' = AfterFailedInsert(dbinit, p, fail_at)
               /\ last_rowid' = RowIdAfterFailedInsert(store, last_rowid,
                                                       dbinit.conn_owner, p, fail_at)
          /\ pc' = [pc EXCEPT ![p] = "except"]
          /\ store' = store
    /\ UNCHANGED <<req, cfg, loc, result, error_result, raised, calls, fn, http>>

\* insert_run, second statement: SELECT last_insert_rowid() on the cached
\* connection; result["log_id"] = row_id
ReadRowId(p) ==
    /\ pc[p] = "rowid"
    /\ result' = [result EXCEPT ![p].log_id = Some(last_rowid)]
    /\ pc' = [pc EXCEPT ![p] = "cum"]
    /\ UNCHANGED <<store, last_rowid, req, cfg, loc, error_result, exc, raised, calls, fn, http, dbinit>>

\* step 8: result["cumulative_cost"] = self.logger.cumulative_cost(); return
CumRead(p) ==
    /\ pc[p] = "cum"
    /\ \/ /\ SameThread(dbinit.conn_owner, p)
          /\ result' = [result EXCEPT ![p].cumulative_cost = Some(get_cumulative_cost(store))]
          /\ pc' = [pc EXCEPT ![p] = "returned"]
          /\ exc' = exc
       \/ /\ exc' = [exc EXCEPT ![p] = StoreRaises(p)]
          /\ pc' = [pc EXCEPT ![p] = "except"]
          /\ result' = result
    /\ UNCHANGED <<store, last_rowid, req, cfg, loc, error_result, raised, calls, fn, http, dbinit>>

\* str(e): the message is kept as its lines; <<"">> is the empty message
StrIsEmpty(e) == e.msg = <<"">>

\* err_msg without the repr(e) case
ErrMsgFirstLineAlways(e) == <<e.msg[1]>>

\* err_msg = str(e).split("\n")[0] if str(e) else repr(e)
ErrMsg(e) ==
    IF ~StrIsEmpty(e) THEN <<e.msg[1]>>
    ELSE IF e.args = 0 THEN <<e.type, "()">>
    ELSE <<e.type, "('')">>

\* the error_result dict of the except branch
ErrorResult(p, r, c, e) ==
    [NoResult EXCEPT
        !.model = "unknown",
        !.prompt_tokens = Some(0),
        !.output_tokens = Some(r.expected_output_tokens),
        !.prompt_cost = Some(0),
        !.completion_cost = Some(0),
        !.total_cost = Some(0),
        !.budget = Some(EffectiveBudget(r, c)),
        !.budget_exceeded = FALSE,
        !.compressed_prompt = <<>>,
        !.actual_cost = Nil,
        !.actual_output_tokens = Nil,
        !.trace_id = Some(TraceId(p)),
        !.router_reason = <<>>,
        !.raw_prompt_len = Some(Len(r.prompt)),
        !.compressed_prompt_len = Some(0),
        !.status = "error",
        !.error_type = e.type,
        !.error_message = ErrMsg(e),
        !.response = <<"[Error] See operational logs for stack trace.">>]

\* the except branch without the inner try: the latest exception leaves
PropagatedLatest(original, inner) == IF inner # NoExc THEN inner ELSE original

\* What leaves the except branch: the inner try swallows `inner`, the
\* exception of a failed persistence (NoExc if none), and the bare `raise`
\* re-raises the exception being handled.
Propagated(original, inner) == original

\* except branch: error_result is built and log_run(error_result) is tried
ErrLogRun(p) ==
    /\ pc[p] = "except"
    /\ LET er == ErrorResult(p, req[p], cfg[p], exc[p])
       IN  /\ error_result' = [error_result EXCEPT ![p] = er]
           /\ \/ /\ SameThread(dbinit.conn_owner, p)
                 /\ store' = InsertRow(store, LogRecord(er, req[p].task_level))
                 /\ last_rowid' = NextRowId(store)
                 /\ dbinit' = Commit(dbinit)
                 /\ pc' = [pc EXCEPT ![p] = "err_rowid"]
                 /\ raised' = raised
              \/ /\ raised' = [raised EXCEPT ![p] = Propagated(exc[p], StoreRaises(p))]
                 /\ \E fail_at \in InsertFailPoints :
                      /\ dbinit' = AfterFailedInsert(dbinit, p, fail_at)
                      /\ last_rowid' = RowIdAfterFailedInsert(store, last_rowid,
                                                              dbinit.conn_owner, p, fail_at)
                 /\ pc' = [pc EXCEPT ![p] = "raised"]
                 /\ store' = store
    /\ UNCHANGED <<req, cfg, loc, result, exc, calls, fn, http>>

\* except branch: error_result["log_id"] = row_id
ErrReadRowId(p) ==
    /\ pc[p] = "err_rowid"
    /\ error_result' = [error_result EXCEPT ![p].log_id = Some(last_rowid)]
    /\ pc' = [pc EXCEPT ![p] = "err_cum"]
    /\ UNCHANGED <<store, last_rowid, req, cfg, loc, result, exc, raised, calls, fn, http, dbinit>>

\* except branch: the cumulative-cost read, then `raise`
ErrCumRead(p) ==
    /\ pc[p] = "err_cum"
    /\ \/ /\ SameThread(dbinit.conn_owner, p)
          /\ error_result' = [error_result EXCEPT
                                 ![p].cumulative_cost = Some(get_cumulative_cost(store))]
          /\ raised' = [raised EXCEPT ![p] = Propagated(exc[p], NoExc)]
       \/ /\ error_result' = error_result
          /\ raised' = [raised EXCEPT ![p] = Propagated(exc[p], StoreRaises(p))]
    /\ pc' = [pc EXCEPT ![p] = "raised"]
    /\ UNCHANGED <<store, last_rowid, req, cfg, loc, result, exc, calls, fn, http, dbinit>>

(***************************************************************************)
(* api_server: what POST /api/run does with the outcome of run_task        *)
(***************************************************************************)
\* build_run_summary: the mode line; the other lines format fields that the
\* response body carries as they are
build_run_summary(run_result) ==
    IF run_result.actual_cost # Nil THEN <<"Mode:             [Execute]">>
    ELSE <<"Mode:             [Dry-run]">>

\* RunTaskResponse(**{k: result[k] for k in model_fields}, summary=...)
RunTaskResponse(run_result) ==
    [trace_id             |-> run_result.trace_id,
     model                |-> run_result.model,
     prompt_tokens        |-> run_result.prompt_tokens,
     output_tokens        |-> run_result.output_tokens,
     prompt_cost          |-> run_result.prompt_cost,
     completion_cost      |-> run_result.completion_cost,
     total_cost           |-> run_result.total_cost,
     budget               |-> run_result.budget,
     budget_exceeded      |-> run_result.budget_exceeded,
     cumulative_cost      |-> run_result.cumulative_cost,
     log_id               |-> run_result.log_id,
     response             |-> run_result.response,
     actual_cost          |-> run_result.actual_cost,
     actual_output_tokens |-> run_result.actual_output_tokens,
     summary              |-> build_run_summary(run_result)]

\* an exception that leaves a handler: the server's own 500 response, the
\* plain text 'Internal Server Error' and no JSON body
UnhandledError ==
    [status_code |-> 500, content_type |-> "text/plain",
     text |-> <<"Internal Server Error">>]

\* except Exception as e: msg = str(e), cut at the first newline;
\* raise HTTPException(status_code=500, detail=msg)
HTTPError(e) ==
    [status_code |-> 500, body |-> [detail |-> <<e.msg[1]>>]]

\* result[k] raises KeyError for a field of RunTaskResponse that run_task
\* never set: actual_output_tokens, when the execute branch saw no usage
MissingResponseField(run_result) ==
    run_result.status = "executed" /\ run_result.actual_output_tokens = Nil

\* body.tenant_id / body.caller_id: None when the body does not carry it
BodyField(body, key) == IF key \in DOMAIN body THEN body[key] ELSE None

\* if body.tenant_id is not None: result["tenant_id"] = body.tenant_id, and
\* the same for caller_id, on the dict run_task returned
Attributed(run_result, body) ==
    [run_result EXCEPT
        !.tenant_id = IF BodyField(body, "tenant_id") # None
                      THEN BodyField(body, "tenant_id") ELSE @,
        !.caller_id = IF BodyField(body, "caller_id") # None
                      THEN BodyField(body, "caller_id") ELSE @]

\* POST /api/run, run_task returned: the attribution is attached to the
\* result, then the 200 response is built, or the server answers 500 when
\* building it raises outside the try block
ApiRunOk(p) ==
    /\ pc[p] = "returned"
    /\ http[p] = NoHttp
    /\ result' = [result EXCEPT ![p] = Attributed(@, req[p])]
    /\ http' = [http EXCEPT ![p] =
                  IF MissingResponseField(result[p])
                  THEN UnhandledError
                  ELSE [status_code |-> 200, body |-> RunTaskResponse(result[p])]]
    /\ UNCHANGED <<store, last_rowid, pc, req, cfg, loc, error_result, exc, raised, calls, fn, dbinit>>

\* POST /api/run, run_task raised: the error response
ApiRunError(p) ==
    /\ pc[p] = "raised"
    /\ http[p] = NoHttp
    /\ http' = [http EXCEPT ![p] = HTTPError(raised[p])]
    /\ UNCHANGED <<store, last_rowid, pc, req, cfg, loc, result, error_result, exc, raised, calls, fn, dbinit>>

(***************************************************************************)
(* api_server: POST /api/route and POST /api/estimate.  Both build an      *)
(* AgentLoop (whose init_db creates missing tables and writes no run row)  *)
(* and answer from the router, the compressor and the estimator alone.     *)
(***************************************************************************)
\* a body of RouteRequest or EstimateRequest that passed validation
ApiBody(input_text, level, tokens, model, budget) ==
    Request(input_text, tokens, level, model, budget, FALSE)

\* the model field of a body: absent, empty, or an override
ApiModels == { None, "", "gpt-4o" }

ApiTexts == Prompts \cup { <<>> }

ApiConfigs ==
    { AgentLoopInit(tb, FALSE, 7, 1) : tb \in {GoogleTable, DeepseekTable} }

\* RouteResponse(model=model_name, router_reason=router_reason)
RouteResponse(body, c) ==
    [status_code |-> 200,
     body |-> [model         |-> ChooseModel(body, c, body.task_level),
               router_reason |-> RouterReason(body)]]

\* (len(compressed) / len(body.input_text)) if body.input_text else 1.0,
\* kept as the pair <<numerator, denominator>>
CompressionRatio(compressed, input_text) ==
    IF input_text # <<>> THEN <<Len(compressed), Len(input_text)>> ELSE <<1, 1>>

\* estimate_task estimating the input text as given, without the compressor
EstimateResponseOnRawText(p, body, c) ==
    LET effective_budget == EffectiveBudget(body, c)
        model_name       == ChooseModel(body, c, body.task_level)
        est == estimate(body.prompt, body.expected_output_tokens, model_name)
    IN  IF est.raised # None THEN UnhandledError ELSE
        [status_code |-> 200,
         body |-> [trace_id          |-> TraceId(p),
                   model             |-> model_name,
                   router_reason     |-> RouterReason(body),
                   prompt_tokens     |-> est.prompt_tokens,
                   output_tokens     |-> est.output_tokens,
                   prompt_cost       |-> est.prompt_cost,
                   completion_cost   |-> est.completion_cost,
                   total_cost        |-> est.total_cost,
                   budget            |-> effective_budget,
                   budget_exceeded   |-> BudgetExceeded(est.total_cost, effective_budget),
                   compression_ratio |-> CompressionRatio(body.prompt, body.prompt)]]

\* estimate_task from compress to the EstimateResponse; latency_ms, a clock
\* reading, is left out
EstimateResponse(p, body, c) ==
    LET effective_budget == EffectiveBudget(body, c)
        compressed       == compress(body.prompt, Nil)
        model_name       == ChooseModel(body, c, body.task_level)
        est == estimate(compressed, body.expected_output_tokens, model_name)
    IN  IF est.raised # None THEN UnhandledError ELSE
        [status_code |-> 200,
         body |-> [trace_id          |-> TraceId(p),
                   model             |-> model_name,
                   router_reason     |-> RouterReason(body),
                   prompt_tokens     |-> est.prompt_tokens,
                   output_tokens     |-> est.output_tokens,
                   prompt_cost       |-> est.prompt_cost,
                   completion_cost   |-> est.completion_cost,
                   total_cost        |-> est.total_cost,
                   budget            |-> effective_budget,
                   budget_exceeded   |-> BudgetExceeded(est.total_cost, effective_budget),
                   compression_ratio |-> CompressionRatio(compressed, body.prompt)]]

\* POST /api/route: the whole handler
ApiRoute(p) ==
    /\ pc[p] = "idle"
    /\ \A q \in Threads : q < p => pc[q] # "idle"
    /\ \E level \in Levels, model \in ApiModels, c \in ApiConfigs :
         http' = [http EXCEPT ![p] =
                    RouteResponse(ApiBody(<<>>, level, 0, model, Nil), c)]
    /\ pc' = [pc EXCEPT ![p] = "routed"]
    /\ UNCHANGED <<store, last_rowid, req, cfg, loc, result, error_result, exc, raised, calls, fn, dbinit>>

\* the estimate handler with a run record written at its end
ApiEstimateLogging(p) ==
    /\ pc[p] = "idle"
    /\ \A q \in Threads : q < p => pc[q] # "idle"
    /\ \E text \in ApiTexts, level \in Levels, tokens \in 1..MaxOutTokens,
          model \in ApiModels, budget \in BudgetOverrides, c \in ApiConfigs :
         LET body == ApiBody(text, level, tokens, model, budget)
             resp == EstimateResponse(p, body, c)
             run  == [BaseResult(p, body, c) EXCEPT !.status = "dry_run"]
         IN  /\ http' = [http EXCEPT ![p] = resp]
             /\ store' = InsertRow(store, LogRecord(run, level))
             /\ last_rowid' = NextRowId(store)
    /\ pc' = [pc EXCEPT ![p] = "estimated"]
    /\ UNCHANGED <<req, cfg, loc, result, error_result, exc, raised, calls, fn, dbinit>>

\* POST /api/estimate: the whole handler; a tokenizer failure inside
\* estimate() leaves the handler uncaught
ApiEstimate(p) ==
    /\ pc[p] = "idle"
    /\ \A q \in Threads : q < p => pc[q] # "idle"
    /\ \E text \in ApiTexts, level \in Levels, tokens \in 1..MaxOutTokens,
          model \in ApiModels, budget \in BudgetOverrides, c \in ApiConfigs :
         \/ http' = [http EXCEPT ![p] =
                       EstimateResponse(p, ApiBody(text, level, tokens, model, budget), c)]
         \/ http' = [http EXCEPT ![p] = UnhandledError]
    /\ pc' = [pc EXCEPT ![p] = "estimated"]
    /\ UNCHANGED <<store, last_rowid, req, cfg, loc, result, error_result, exc, raised, calls, fn, dbinit>>

(***************************************************************************)
(* memory.db.get_recent_runs and GET /api/runs                             *)
(***************************************************************************)
\* the rows in the order of "order by -id": highest id first
RECURSIVE OrderByIdDesc(_)
OrderByIdDesc(rowset) ==
    IF rowset = {} THEN <<>>
    ELSE LET top == CHOOSE r \in rowset : \A o \in rowset : o.id <= r.id
         IN  <<top>> \o OrderByIdDesc(rowset \ {top})

\* get_recent_runs: select * from task_runs order by -id limit <limit>;
\* SQLite puts no upper bound on the rows when the limit is negative
get_recent_runs(rows, limit) ==
    LET ordered == OrderByIdDesc({ rows[i] : i \in 1..Len(rows) })
    IN  IF limit < 0 THEN ordered
        ELSE SubSeq(ordered, 1, Min(limit, Len(ordered)))

\* the limit query parameter of GET /api/runs: any int
ListLimits == (0 - 1)..3

\* where list_runs -> get_recent_runs -> get_db can raise: 0 nowhere, 1 in
\* the opening of the connection
ListFailPoints == 0..1

\* GET /api/runs, up to the return of get_db.  The handler builds no
\* AgentLoop: get_db opens and caches the connection when none is cached,
\* or the opening raises, nothing is cached and the exception leaves the
\* handler.  _DB_CACHE_LOCK is released here, before the select.
ApiRuns(p) ==
    /\ pc[p] = "idle"
    /\ \A q \in Threads : q < p => pc[q] # "idle"
    /\ \E limit \in ListLimits, fail_at \in ListFailPoints :
         /\ fail_at = 1 => dbinit.conn_owner = Nil
         /\ req' = [req EXCEPT ![p] = [limit |-> limit]]
         /\ dbinit' = IF fail_at = 1 THEN dbinit
                       ELSE [dbinit EXCEPT !.conn_owner = get_db(@, p)]
         /\ pc' = [pc EXCEPT ![p] = IF fail_at = 1 THEN "listed" ELSE "listing"]
         /\ http' = IF fail_at = 1 THEN [http EXCEPT ![p] = UnhandledError] ELSE http
    /\ UNCHANGED <<store, last_rowid, cfg, loc, result, error_result, exc, raised, calls, fn>>

\* GET /api/runs, the select of rows_where on the cached connection: the
\* rows as they are now (a missing table lists as no row), or the select
\* raises, as it always does in a thread other than the connection's, and
\* the exception leaves the handler
ApiRunsSelect(p) ==
    /\ pc[p] = "listing"
    /\ \/ /\ SameThread(dbinit.conn_owner, p)
          /\ http' = [http EXCEPT ![p] =
                        [status_code |-> 200,
                         body |-> [runs |-> get_recent_runs(store, req[p].limit)]]]
       \/ http' = [http EXCEPT ![p] = UnhandledError]
    /\ pc' = [pc EXCEPT ![p] = "listed"]
    /\ UNCHANGED <<store, last_rowid, req, cfg, loc, result, error_result, exc, raised, calls, fn, dbinit>>

(***************************************************************************)
(* memory.db.init_db: every AgentLoop() calls it through LogHandler().      *)
(* With _INIT_DONE set the call returns at once and changes nothing, so an *)
(* operation that starts with the flag set has made that call.             *)
(***************************************************************************)
\* where the body can raise: 0 nowhere, 1 in get_db (no connection is
\* cached), 2 in table_names or in the creation of task_runs (nothing is
\* created), 3 in the creation of meta (task_runs is created), 4 in the
\* insertion of the schema_version row (meta is created, or was there
\* without the row)
FailPoints == 0..4

\* a lock holder that never looks at the flag again
SecondCheckSkipped(done) == FALSE

\* with _INIT_LOCK: if _INIT_DONE: return
SecondCheck(done) == done

\* the tables after the body ran up to fail_at
TablesAfter(tables, fail_at) ==
    IF fail_at \in 1..2 THEN tables
    ELSE IF fail_at = 3 THEN tables \cup {"task_runs"}
    ELSE tables \cup {"task_runs", "meta"}

\* the body inserts the schema_version row when it got that far and meta
\* was just created, or the select found no row
InsertsVersion(tables, version, fail_at) ==
    fail_at = 0 /\ ("meta" \notin tables \/ version = 0)

\* the schema_version rows of meta after the body ran up to fail_at
VersionAfter(tables, version, fail_at) ==
    IF InsertsVersion(tables, version, fail_at) THEN version + 1 ELSE version

\* the body of init_db after get_db, ended by the flag or by an exception;
\* leaving the with block releases the lock either way
InitDbBody(d, fail_at) ==
    [INIT_DONE      |-> (fail_at = 0),
     INIT_LOCK      |-> 0,
     conn_owner     |-> d.conn_owner,
     tables         |-> TablesAfter(d.tables, fail_at),
     schema_version |-> VersionAfter(d.tables, d.schema_version, fail_at),
     uncommitted    |-> IF InsertsVersion(d.tables, d.schema_version, fail_at)
                        THEN 1 ELSE d.uncommitted,
     body_runs      |-> IF fail_at = 0 THEN d.body_runs + 1 ELSE d.body_runs]

\* how the call that built AgentLoop() is answered when init_db raised e:
\* POST /api/run builds it inside its try and answers with the detail,
\* /api/route and /api/estimate build it outside any try, and a caller of
\* the library gets the exception and no response
InitFailureResponses(e) == { HTTPError(e), UnhandledError, NoHttp }

\* if _INIT_DONE: return -- the flag is unset and the caller goes for the lock
InitDbEnter(p) ==
    /\ pc[p] = "idle"
    /\ ~dbinit.INIT_DONE
    /\ pc' = [pc EXCEPT ![p] = "init_lock"]
    /\ UNCHANGED <<store, last_rowid, req, cfg, loc, result, error_result, exc, raised, calls, fn, http, dbinit>>

\* the caller gets the lock and looks at the flag again
InitDbAcquire(p) ==
    /\ pc[p] = "init_lock"
    /\ dbinit.INIT_LOCK = 0
    /\ IF SecondCheck(dbinit.INIT_DONE)
       THEN /\ pc' = [pc EXCEPT ![p] = "idle"]
            /\ UNCHANGED dbinit
       ELSE /\ pc' = [pc EXCEPT ![p] = "init_body"]
            /\ dbinit' = [dbinit EXCEPT !.INIT_LOCK = p]
    /\ UNCHANGED <<store, last_rowid, req, cfg, loc, result, error_result, exc, raised, calls, fn, http>>

\* db = get_db() under the lock: the connection is there or is opened, or
\* opening it raises and the exception leaves init_db and AgentLoop()
InitDbConnect(p) ==
    /\ pc[p] = "init_body"
    /\ \/ /\ dbinit' = [dbinit EXCEPT !.conn_owner = get_db(@, p)]
          /\ pc' = [pc EXCEPT ![p] = "init_tables"]
          /\ UNCHANGED <<raised, http>>
       \/ /\ dbinit.conn_owner = Nil
          /\ dbinit' = InitDbBody(dbinit, 1)
          /\ pc' = [pc EXCEPT ![p] = "init_raised"]
          /\ raised' = [raised EXCEPT ![p] = StoreError]
          /\ \E h \in InitFailureResponses(StoreError) : http' = [http EXCEPT ![p] = h]
    /\ UNCHANGED <<store, last_rowid, req, cfg, loc, result, error_result, exc, calls, fn>>

\* the lock holder runs the rest of the body: it returns with the flag set,
\* or an exception leaves init_db and AgentLoop() with it.  In a thread
\* other than the connection's the first statement raises.
InitDbRun(p) ==
    /\ pc[p] = "init_tables"
    /\ \E fail_at \in FailPoints \ {1} :
         /\ ~SameThread(dbinit.conn_owner, p) => fail_at = 2
         /\ dbinit' = InitDbBody(dbinit, fail_at)
         /\ last_rowid' = IF InsertsVersion(dbinit.tables, dbinit.schema_version, fail_at)
                          THEN 1 ELSE last_rowid
         /\ IF fail_at = 0
            THEN /\ pc' = [pc EXCEPT ![p] = "idle"]
                 /\ UNCHANGED <<raised, http>>
            ELSE /\ pc' = [pc EXCEPT ![p] = "init_raised"]
                 /\ raised' = [raised EXCEPT ![p] = StoreRaises(p)]
                 /\ \E h \in InitFailureResponses(StoreRaises(p)) :
                      http' = [http EXCEPT ![p] = h]
    /\ UNCHANGED <<store, req, cfg, loc, result, error_result, exc, calls, fn>>

(***************************************************************************)
(* Specifications                                                          *)
(***************************************************************************)
Solo(p) == \A q \in Threads \ {p} : pc[q] = "idle"

Steps(p) ==
    \/ Prepare(p)
    \/ Complete(p)
    \/ Judge(p)
    \/ LogRun(p)
    \/ ReadRowId(p)
    \/ CumRead(p)
    \/ ErrLogRun(p)
    \/ ErrReadRowId(p)
    \/ ErrCumRead(p)
    \/ ApiRunOk(p)
    \/ ApiRunError(p)

\* one invocation, any request, against a store that may hold earlier rows
StartOne(p) == Solo(p) /\ Start(p, Requests, Configs)

Next == \E p \in Threads : StartOne(p) \/ Steps(p)

Spec == Init /\ [][Next]_vars

\* one executing invocation, quality evaluation on or off, any retry setting
StartQuality(p) == Solo(p) /\ Start(p, QRequests, QConfigs)

NextQuality == \E p \in Threads : StartQuality(p) \/ Steps(p)

SpecQuality == Init /\ [][NextQuality]_vars

\* The quality loop under fair scheduling: a worker inside the loop goes on
\* running, and every provider or judge call it makes returns or raises.
LRequests == { Request(<<"x">>, 1, l, None, Nil, TRUE) : l \in Levels }

LConfigs ==
    { AgentLoopInit(tb, TRUE, 7, r) :
        tb \in {GoogleTable, DeepseekTable, UpperTable}, r \in {0, 1, 3, MaxRawRetries} }

StartLoop(p) == Solo(p) /\ Start(p, LRequests, LConfigs)

NextLoop == \E p \in Threads : StartLoop(p) \/ Steps(p)

SpecLoopFair ==
    /\ Init
    /\ [][NextLoop]_vars
    /\ \A p \in Threads : WF_vars(Prepare(p) \/ Complete(p) \/ Judge(p))

\* concurrent invocations, one per worker thread, none executing
StartConc(p) == Start(p, CRequests, CConfigs)

\* CRequests are dry runs, so Complete and Judge are never enabled
StepsConc(p) ==
    \/ Prepare(p)
    \/ LogRun(p)
    \/ ReadRowId(p)
    \/ CumRead(p)
    \/ ErrLogRun(p)
    \/ ErrReadRowId(p)
    \/ ErrCumRead(p)
    \/ ApiRunOk(p)
    \/ ApiRunError(p)

NextConc == \E p \in Threads : StartConc(p) \/ StepsConc(p)

SpecConc == Init /\ [][NextConc]_vars

\* the three endpoints served side by side: each worker takes a run, a
\* route or an estimate request
NextApi ==
    \E p \in Threads : StartConc(p) \/ StepsConc(p) \/ ApiRoute(p) \/ ApiEstimate(p)

SpecApi == Init /\ [][NextApi]_vars

\* POST /api/run with attribution: the body carries tenant_id and caller_id,
\* each a string or null
AttributedRequests ==
    { Request(<<"x">>, 1, 1, None, Nil, e) @@ [tenant_id |-> t, caller_id |-> c] :
        e \in BOOLEAN, t \in {None, "tenant-a"}, c \in {None, "agent-1"} }

StartAttributed(p) == Solo(p) /\ Start(p, AttributedRequests, Configs)

NextAttributed == \E p \in Threads : StartAttributed(p) \/ Steps(p)

SpecAttributed == Init /\ [][NextAttributed]_vars

\* runs and listings side by side: each worker takes a run request or a
\* GET /api/runs
NextRuns ==
    \E p \in Threads : StartConc(p) \/ StepsConc(p) \/ ApiRuns(p) \/ ApiRunsSelect(p)

SpecRuns == Init /\ [][NextRuns]_vars

\* a fresh process on a database file: new (no table), from before meta was
\* introduced, whole, or left by an init_db that failed on the way
DbFiles ==
    { f \in [tables : {{}, {"task_runs"}, {"task_runs", "meta"}}, schema_version : 0..1] :
        "meta" \in f.tables \/ f.schema_version = 0 }

InitProcess ==
    /\ \E f \in DbFiles :
         /\ dbinit = [INIT_DONE |-> FALSE, INIT_LOCK |-> 0, conn_owner |-> Nil,
                      tables |-> f.tables, schema_version |-> f.schema_version,
                      uncommitted |-> 0, body_runs |-> 0]
         /\ \E n \in 0..MaxPriorRows :
              /\ n > 0 => "task_runs" \in f.tables
              /\ store = [i \in 1..n |-> PriorRow(i)]
    /\ last_rowid = 0
    /\ pc = [p \in Threads |-> "idle"]
    /\ req = [p \in Threads |-> Request(<<>>, 0, 0, None, Nil, FALSE)]
    /\ cfg = [p \in Threads |-> AgentLoopInit(<<>>, FALSE, 0, 0)]
    /\ loc = [p \in Threads |-> NoLoc]
    /\ result = [p \in Threads |-> NoResult]
    /\ error_result = [p \in Threads |-> NoResult]
    /\ exc = [p \in Threads |-> NoExc]
    /\ raised = [p \in Threads |-> NoExc]
    /\ calls = [p \in Threads |-> <<>>]
    /\ http = [p \in Threads |-> NoHttp]
    /\ fn = NoFn

\* the callers of a fresh process: each takes a listing, or initialises the
\* database and then takes a run, a route or an estimate
NextProcess ==
    \E p \in Threads :
        \/ InitDbEnter(p) \/ InitDbAcquire(p) \/ InitDbConnect(p) \/ InitDbRun(p)
        \/ ApiRuns(p) \/ ApiRunsSelect(p)
        \/ /\ dbinit.INIT_DONE
           /\ StartConc(p) \/ StepsConc(p) \/ ApiRoute(p) \/ ApiEstimate(p)

SpecProcess == InitProcess /\ [][NextProcess]_vars

(***************************************************************************)
(* QualityEvaluator.evaluate on its own: the judge's behaviour is drawn    *)
(* from EvalInputs and evaluate is applied to it.                          *)
(***************************************************************************)
EvalInputs ==
    { JudgeBehaviour(call, JudgeText(js, key, n, hr, rm, rn), cost_ok, 1) :
        call \in {"raise", "reply"}, js \in {"invalid", "nonobj", "obj"},
        key \in {"absent", "null", "word", "int"}, n \in {0, 3, 9, 15},
        hr \in BOOLEAN, rm \in BOOLEAN, rn \in {5, 12}, cost_ok \in BOOLEAN }

InitEval ==
    /\ InitPipeline
    /\ \E j \in EvalInputs : fn = [op |-> "evaluate", arg |-> j, out |-> <<>>, done |-> FALSE]

ApplyEvaluate ==
    /\ fn.op = "evaluate"
    /\ ~fn.done
    /\ fn' = [fn EXCEPT !.out = evaluate(fn.arg), !.done = TRUE]
    /\ UNCHANGED <<store, last_rowid, pc, req, cfg, loc, result, error_result, exc, raised, calls, http, dbinit>>

SpecEval == InitEval /\ [][ApplyEvaluate]_vars

(***************************************************************************)
(* ProbabilisticRouter on its own: a router is built on a table, in an     *)
(* environment, and route_task is called twice with the same level.        *)
(***************************************************************************)
MaxTableLen == 3

ModelIds == <<"m1", "m2", "m3", "m4">>

\* an entry of level 0 stands for one without a "level" field: it matches no
\* requested level and counts as 0 in the fallback
EntryLevels == 0..3

RouteLevels == 1..4

Tables ==
    LET n_max == Min(MaxTableLen, Len(ModelIds))
        ids   == { ModelIds[i] : i \in 1..n_max }
    IN  UNION { { t \in [1..n -> [id : ids, level : EntryLevels]] :
                    \A i, j \in 1..n : i # j => t[i].id # t[j].id } : n \in 1..n_max }

RouterInputs ==
    { [model_config |-> t, prices |-> pr, task_level |-> l] :
        t \in Tables \cup {<<>>},
        pr \in {PricesOk(GoogleTable), PricesOk(<<>>), PricesMissing},
        l \in RouteLevels }

InitRouter ==
    /\ InitPipeline
    /\ \E a \in RouterInputs : fn = [op |-> "route_task", arg |-> a, out |-> <<>>, done |-> FALSE]

ApplyRoute ==
    /\ fn.op = "route_task"
    /\ ~fn.done
    /\ fn' = [fn EXCEPT
                !.out = [first  |-> RouteCall(fn.arg.model_config, fn.arg.prices, fn.arg.task_level),
                         second |-> RouteCall(fn.arg.model_config, fn.arg.prices, fn.arg.task_level)],
                !.done = TRUE]
    /\ UNCHANGED <<store, last_rowid, pc, req, cfg, loc, result, error_result, exc, raised, calls, http, dbinit>>

SpecRouter == InitRouter /\ [][ApplyRoute]_vars

(***************************************************************************)
(* QualityEvaluator._parse_score on its own, applied to a judge reply.     *)
(***************************************************************************)
ParseInputs ==
    { JudgeText(js, key, n, hr, rm, rn) :
        js \in {"invalid", "nonobj", "obj"},
        key \in {"absent", "null", "word", "int"}, n \in {0, 7, 10, 15},
        hr \in BOOLEAN, rm \in BOOLEAN, rn \in {5, 10, 12} }

InitParse ==
    /\ InitPipeline
    /\ \E raw \in ParseInputs :
         fn = [op |-> "_parse_score", arg |-> raw, out |-> <<>>, done |-> FALSE]

ApplyParse ==
    /\ fn.op = "_parse_score"
    /\ ~fn.done
    /\ fn' = [fn EXCEPT !.out = ParseScore(fn.arg), !.done = TRUE]
    /\ UNCHANGED <<store, last_rowid, pc, req, cfg, loc, result, error_result, exc, raised, calls, http, dbinit>>

SpecParse == InitParse /\ [][ApplyParse]_vars

(***************************************************************************)
(* TokenEstimator.estimate on its own, and run_task over models the        *)
(* pricing oracle knows, does not know, or fails on.                       *)
(***************************************************************************)
EstimateModels == DOMAIN Pricing \cup { "local/unpriced" } \cup BrokenPricing

EstimateInputs ==
    { [prompt_text |-> t, expected_output_tokens |-> n, model_name |-> m] :
        t \in Prompts \cup { <<>> }, n \in 0..MaxOutTokens, m \in EstimateModels }

\* either estimate is to be called on its own, or the workers are idle
InitEstimate ==
    /\ InitPipeline
    /\ \/ fn = NoFn
       \/ \E a \in EstimateInputs :
            fn = [op |-> "estimate", arg |-> a, out |-> <<>>, done |-> FALSE]

ApplyEstimate ==
    /\ fn.op = "estimate"
    /\ ~fn.done
    /\ fn' = [fn EXCEPT
                !.out = estimate(fn.arg.prompt_text, fn.arg.expected_output_tokens,
                                 fn.arg.model_name),
                !.done = TRUE]
    /\ UNCHANGED <<store, last_rowid, pc, req, cfg, loc, result, error_result, exc, raised, calls, http, dbinit>>

PricingRequests ==
    { Request(pr, t, 1, o, Nil, e) :
        pr \in Prompts, t \in 1..MaxOutTokens,
        o \in {None, "gpt-4o", "local/unpriced"} \cup BrokenPricing, e \in BOOLEAN }

PricingConfigs == { AgentLoopInit(GoogleTable, en, 7, 1) : en \in BOOLEAN }

StartPricing(p) == fn = NoFn /\ Solo(p) /\ Start(p, PricingRequests, PricingConfigs)

NextEstimate == ApplyEstimate \/ \E p \in Threads : StartPricing(p) \/ Steps(p)

SpecEstimate == InitEstimate /\ [][NextEstimate]_vars

(***************************************************************************)
(* SemanticCompressor.compress on its own: applied to a text, and again to *)
(* its own output.                                                         *)
(***************************************************************************)
MaxTextLen == 4

\* the characters texts are made of: letters that spell the stopwords "a"
\* and "an" in either case, a letter that spells none, a blank, a newline
Alphabet == { "a", "n", "A", "x", " ", "\n" }

RECURSIVE TextsOfLen(_)
TextsOfLen(n) ==
    IF n = 0 THEN { <<>> }
    ELSE { <<c>> \o t : c \in Alphabet, t \in TextsOfLen(n - 1) }

Texts == UNION { TextsOfLen(n) : n \in 0..MaxTextLen }

CompressInputs ==
    { [prompt_text |-> t, max_tokens |-> m] :
        t \in Texts, m \in { Nil } \cup { Some(n) : n \in 0..2 } }

InitCompress ==
    /\ InitPipeline
    /\ \E a \in CompressInputs :
         fn = [op |-> "compress", arg |-> a, out |-> <<>>, done |-> FALSE]

ApplyCompress ==
    /\ fn.op = "compress"
    /\ ~fn.done
    /\ fn' = [fn EXCEPT
                !.out = [once  |-> compress(fn.arg.prompt_text, fn.arg.max_tokens),
                         twice |-> compress(compress(fn.arg.prompt_text, fn.arg.max_tokens),
                                            fn.arg.max_tokens)],
                !.done = TRUE]
    /\ UNCHANGED <<store, last_rowid, pc, req, cfg, loc, result, error_result, exc, raised, calls, http, dbinit>>

SpecCompress == InitCompress /\ [][ApplyCompress]_vars

(***************************************************************************)
(* Properties                                                              *)
(***************************************************************************)
\* run_task has passed step 6: the result dict is complete but for log_id
\* and cumulative_cost
AfterLoop(p) == pc[p] \in {"log", "rowid", "cum", "returned"}

Returned(p) == pc[p] = "returned"

\* the invocation has got past steps 1-5 without an exception
Estimated(p) == pc[p] \notin {"idle", "prepare"} /\ exc[p] # TokenizerError

\* the estimate of the request, recomputed from its arguments
EstimatedTotal(p) ==
    estimate(compress(req[p].prompt, Nil), req[p].expected_output_tokens,
             ChooseModel(req[p], cfg[p], req[p].task_level)).total_cost

OverBudget(p) == EstimatedTotal(p) > EffectiveBudget(req[p], cfg[p])

CompletionIdx(p) == { i \in 1..Len(calls[p]) : calls[p][i].kind = "completion" }

JudgeIdx(p) == { i \in 1..Len(calls[p]) : calls[p][i].kind = "judge" }

LastCompletion(p) ==
    calls[p][CHOOSE i \in CompletionIdx(p) : \A k \in CompletionIdx(p) : k <= i]

\* the rows of the store that carry the invocation's trace_id
RowsOf(p) == { i \in 1..Len(store) : store[i].trace_id = Some(TraceId(p)) }

\* the response run_task makes of a completion's content
ResponseOf(content) ==
    IF Strip(content) # <<>> THEN content ELSE EmptyResponseMessage

\* C1: budget gate.  Whenever the estimated total cost of a call is strictly
\* greater than its effective budget, the call makes no completion and no
\* judge call (also with execute = true), and the result it returns has
\* status rejected_budget, budget_exceeded = true and actual_cost = null.
C1_BudgetGate ==
    \A p \in Threads :
        (Estimated(p) /\ OverBudget(p)) =>
            /\ calls[p] = <<>>
            /\ Returned(p) =>
                /\ result[p].status = "rejected_budget"
                /\ result[p].budget_exceeded = TRUE
                /\ result[p].actual_cost = Nil

C1_Witness ==
    \E p \in Threads :
        /\ Returned(p) /\ req[p].execute /\ OverBudget(p)
        /\ result[p].status = "rejected_budget"

\* C2: every invocation that has ended, by returning or by raising, has
\* appended exactly one row carrying its trace_id.
C2_ExactlyOneRow ==
    \A p \in Threads :
        pc[p] \in {"returned", "raised"} => Cardinality(RowsOf(p)) = 1

\* the total of total_cost over the rows of the store indexed by S
RECURSIVE RowCostSum(_)
RowCostSum(S) ==
    IF S = {} THEN 0
    ELSE LET i == CHOOSE j \in S : TRUE
         IN  store[i].total_cost + RowCostSum(S \ {i})

\* the rows the store held before any invocation started
EarlierRows == { i \in 1..Len(store) : store[i].trace_id = Some(0) }

\* C3: at the step that reads the cumulative cost of a result that is then
\* returned, the value attached is the sum of total_cost over all rows in
\* the store at that moment; the invocation's own row is one of them; so the
\* value is the run's total_cost plus the total of the other rows present.
\* When no other invocation has started, that is the total of the rows the
\* store held before the call plus the run's total_cost.
\* This holds at every such step of every interleaving.
C3_CumulativeCost ==
    [][ \A p \in Threads :
          (pc[p] = "cum" /\ pc'[p] = "returned") =>
            LET all == 1..Len(store)
            IN  /\ result'[p].cumulative_cost = Some(RowCostSum(all))
                /\ Cardinality(RowsOf(p)) = 1
                /\ result'[p].cumulative_cost =
                     Some(Val(result[p].total_cost) + RowCostSum(all \ RowsOf(p)))
                /\ Solo(p) =>
                     result'[p].cumulative_cost =
                       Some(Val(result[p].total_cost)
                            + RowCostSum({ i \in all : store[i].trace_id = Some(0) })) ]_vars

\* an invocation in the connection's thread has returned over a store that
\* held an earlier row, while the invocation of another thread was refused
C3_Witness ==
    \E p, q \in Threads :
        /\ p # q /\ Returned(p)
        /\ raised[q] = ThreadError
        /\ Len(store) = 2
        /\ EarlierRows # {}
        /\ Val(result[p].cumulative_cost) > Val(result[p].total_cost)

JudgeScore(p, i) == Val(calls[p][2 * i].score)

\* completion, judge, completion, judge, ...: n of each
Alternates(p, n) ==
    /\ Len(calls[p]) = 2 * n
    /\ \A i \in 1..n : /\ calls[p][2 * i - 1].kind = "completion"
                       /\ calls[p][2 * i].kind = "judge"

\* C4: quality retry, success case.  With quality evaluation on, a run that
\* has left the retry loop made n completion and n judge calls in strict
\* alternation, and every score but the last was below the threshold.  If
\* the last score meets the threshold (k = n - 1 failed attempts), then
\* quality_retries = k, the reported model is the model called on the
\* passing attempt, the response is what run_task makes of that attempt's
\* content, and original_model is the initially chosen model when k > 0 and
\* null when k = 0.  The loop never stops on a failing score while a further
\* attempt is allowed (n <= max_retries and task_level + n <= 3), so a
\* passing attempt k + 1 within these limits is always reached.
C4_RetrySuccess ==
    \A p \in Threads :
        (AfterLoop(p) /\ cfg[p].quality_eval_enabled /\ req[p].execute /\ ~OverBudget(p)) =>
            LET n   == Cardinality(JudgeIdx(p))
                thr == cfg[p].quality_threshold
            IN  /\ n >= 1
                /\ Alternates(p, n)
                /\ \A i \in 1..(n - 1) : JudgeScore(p, i) < thr
                /\ JudgeScore(p, n) >= thr =>
                    /\ result[p].quality_retries = Some(n - 1)
                    /\ result[p].model = calls[p][2 * n - 1].model
                    /\ result[p].response = ResponseOf(calls[p][2 * n - 1].content)
                    /\ result[p].original_model =
                         IF n > 1 THEN ChooseModel(req[p], cfg[p], req[p].task_level)
                         ELSE None
                /\ JudgeScore(p, n) < thr =>
                    ~(n <= cfg[p].quality_max_retries /\ req[p].task_level + n <= 3)

\* the second attempt passed after the first failed
C4_Witness ==
    \E p \in Threads :
        /\ Returned(p) /\ Cardinality(JudgeIdx(p)) = 2
        /\ JudgeScore(p, 1) < cfg[p].quality_threshold
        /\ JudgeScore(p, 2) >= cfg[p].quality_threshold
        /\ result[p].quality_retries = Some(1)
        /\ result[p].original_model # None
        /\ result[p].model # result[p].original_model

AllScoresBelow(p) ==
    /\ JudgeIdx(p) # {}
    /\ \A i \in JudgeIdx(p) : Val(calls[p][i].score) < cfg[p].quality_threshold

\* C5: quality retry exhaustion.  With quality evaluation on, a run whose
\* judge scores were all below the threshold leaves the loop as an executed
\* result, not an error, carrying the response of the last completion call
\* made; and when task_level + max_retries <= 3 it has made exactly
\* 1 + max_retries completion calls.
C5_RetryExhaustion ==
    \A p \in Threads :
        (AfterLoop(p) /\ cfg[p].quality_eval_enabled /\ AllScoresBelow(p)) =>
            /\ result[p].status = "executed"
            /\ result[p].error_type = None
            /\ result[p].response = ResponseOf(LastCompletion(p).content)
            /\ (req[p].task_level + cfg[p].quality_max_retries <= 3) =>
                 Cardinality(CompletionIdx(p)) = 1 + cfg[p].quality_max_retries

C5_Witness ==
    \E p \in Threads :
        /\ Returned(p) /\ AllScoresBelow(p)
        /\ req[p].task_level = 1 /\ cfg[p].quality_max_retries = 2
        /\ Cardinality(CompletionIdx(p)) = 3
        /\ result[p].status = "executed"

\* C6: in every returned result with status executed, the reported model is
\* the model id the last completion call was made with.
C6_ReportedModelWasCalled ==
    \A p \in Threads :
        (Returned(p) /\ result[p].status = "executed") =>
            result[p].model = LastCompletion(p).model

\* C7: dry run.  A call with execute = false whose estimate does not exceed
\* the budget makes no completion and no judge call; the result it returns
\* has status dry_run, actual_cost and actual_output_tokens null,
\* budget_exceeded false, and the response "[Dry-run] Would use <model>"
\* naming the routed or override model.
C7_DryRun ==
    \A p \in Threads :
        (Estimated(p) /\ ~req[p].execute /\ ~OverBudget(p)) =>
            /\ calls[p] = <<>>
            /\ Returned(p) =>
                /\ result[p].status = "dry_run"
                /\ result[p].actual_cost = Nil
                /\ result[p].actual_output_tokens = Nil
                /\ result[p].budget_exceeded = FALSE
                /\ result[p].response =
                     <<"[Dry-run] Would use ",
                       ChooseModel(req[p], cfg[p], req[p].task_level)>>

C7_Witness ==
    \E p \in Threads :
        /\ Returned(p) /\ ~req[p].execute /\ ~OverBudget(p)
        /\ req[p].model_override = None
        /\ result[p].response = <<"[Dry-run] Would use ", "gemini/gemini-2.0-flash">>

\* C8: fail-open judge.  Whatever the judge call does (it raises, its cost
\* cannot be computed, or it returns any reply text, valid JSON that is no
\* object with an integer-convertible score included), evaluate returns a
\* result and no exception leaves it; when the judge call raises, the
\* result is score 10, eval_cost 0 and a reason starting with eval_error.
C8_FailOpenJudge ==
    (fn.op = "evaluate" /\ fn.done) =>
        /\ fn.out.raised = FALSE
        /\ fn.arg.call = "raise" =>
            /\ fn.out.score = 10
            /\ fn.out.eval_cost = 0
            /\ Head(fn.out.reason) = "eval_error: "

\* evaluate has answered a reply that is valid JSON but no object
C8_Witness ==
    /\ fn.op = "evaluate" /\ fn.done
    /\ fn.arg.call = "reply" /\ fn.arg.cost_ok /\ fn.arg.raw.json = "nonobj"
    /\ fn.out.score = 10

\* the error row of the invocation, as the claim describes it
IsErrorRowOf(row, p, message) ==
    /\ row.trace_id = Some(TraceId(p))
    /\ row.status = "error"
    /\ row.prompt_cost = 0 /\ row.completion_cost = 0 /\ row.total_cost = 0
    /\ row.budget_exceeded = 0
    /\ row.actual_cost = Nil
    /\ row.error_type = exc[p].type
    /\ row.error_message = message

\* C9: error path.  Whenever an exception has left run_task, the store
\* holds an error row of the invocation (status error, zero costs,
\* budget_exceeded false, actual_cost null, error_type the exception's class
\* name, error_message the first line of its message, the run's trace_id),
\* and the exception that left is the original one.
C9_ErrorRecordAlways ==
    \A p \in Threads :
        pc[p] = "raised" =>
            /\ \E i \in 1..Len(store) : IsErrorRowOf(store[i], p, <<exc[p].msg[1]>>)
            /\ raised[p] = exc[p]

\* C10: when the append of the error record, or the cumulative-cost read
\* after it, fails inside the except branch, that failure is swallowed: the
\* exception that leaves run_task is the one the branch was handling.
C10_OriginalPropagates ==
    \A p \in Threads :
        (pc[p] = "raised" /\ error_result[p].cumulative_cost = Nil) =>
            /\ raised[p] = exc[p]
            /\ raised[p] # NoExc

\* the provider failed, then the append of the error record failed too
C10_Witness ==
    \E p \in Threads :
        /\ pc[p] = "raised"
        /\ exc[p].type = "AuthenticationError"
        /\ \A i \in RowsOf(p) : store[i].status # "error"
        /\ raised[p].type = "AuthenticationError"

\* the status the rule gives a run in which no step raised
StatusByRule(p) ==
    IF OverBudget(p) THEN "rejected_budget"
    ELSE IF req[p].execute THEN "executed"
    ELSE "dry_run"

\* C11: a run that returns has the status the rule gives it: rejected_budget
\* iff total_cost > effective budget (whatever the execute flag), otherwise
\* executed iff execute = true, otherwise dry_run; it is never error; and the
\* row it appended carries that same status.  A run in which a step raised
\* has status error in its error record and in the error row when that row
\* was appended, and returns no result.
C11_StatusRule ==
    \A p \in Threads :
        /\ Returned(p) =>
            /\ result[p].status = StatusByRule(p)
            /\ result[p].status \in {"executed", "dry_run", "rejected_budget"}
            /\ RowsOf(p) # {}
            /\ \A i \in RowsOf(p) : store[i].status = result[p].status
        /\ pc[p] \in {"err_rowid", "err_cum", "raised"} =>
            /\ exc[p] # NoExc
            /\ error_result[p].status = "error"
            /\ \A i \in RowsOf(p) :
                 store[i].status = "error" \/ store[i].status = result[p].status
        /\ \A i \in RowsOf(p) :
             store[i].status = "error" => exc[p] # NoExc

\* an executing request over budget has returned rejected, and so says its row
C11_Witness ==
    \E p \in Threads :
        /\ Returned(p) /\ req[p].execute /\ OverBudget(p)
        /\ \E i \in RowsOf(p) : store[i].status = "rejected_budget"

\* C12: the response of POST /api/run to a failed pipeline is structured by
\* the kind of failure: 502 with error_code provider_auth_error for an
\* authentication failure, 502 with provider_unavailable for a connection
\* failure, and for any other exception 500 with error_code internal_error,
\* a message field and details.exception_type the exception's class name.
C12_StructuredError ==
    \A p \in Threads :
        (pc[p] = "raised" /\ http[p] # NoHttp) =>
            LET e == raised[p]
                b == http[p].body
            IN  /\ "error_code" \in DOMAIN b
                /\ e.type = "AuthenticationError" =>
                     http[p].status_code = 502 /\ b.error_code = "provider_auth_error"
                /\ e.type = "APIConnectionError" =>
                     http[p].status_code = 502 /\ b.error_code = "provider_unavailable"
                /\ e.type \notin {"AuthenticationError", "APIConnectionError"} =>
                     /\ http[p].status_code = 500
                     /\ b.error_code = "internal_error"
                     /\ "message" \in DOMAIN b
                     /\ b.details.exception_type = e.type

\* C13: on every non-empty table and every level route_task returns a key of
\* the table: the first entry, in table order, of that level if there is
\* one, otherwise the first entry among those of the highest level; and a
\* second call with the same table and level returns the same id.
C13_Router ==
    (fn.op = "route_task" /\ fn.done /\ fn.arg.model_config # <<>>) =>
        LET t   == fn.arg.model_config
            lvl == fn.arg.task_level
            out == fn.out.first
        IN  /\ ~out.raised
            /\ fn.out.second = out
            /\ \E i \in 1..Len(t) :
                /\ t[i].id = out.id
                /\ \/ /\ t[i].level = lvl
                      /\ \A k \in 1..(i - 1) : t[k].level # lvl
                   \/ /\ \A k \in 1..Len(t) : t[k].level # lvl
                      /\ \A k \in 1..Len(t) : t[k].level <= t[i].level
                      /\ \A k \in 1..(i - 1) : t[k].level < t[i].level

\* a level above every configured one fell back to the second of three
\* entries, the first of the two that share the highest level
C13_Witness ==
    /\ fn.op = "route_task" /\ fn.done
    /\ Len(fn.arg.model_config) = 3
    /\ fn.arg.task_level = 4
    /\ fn.arg.model_config[1].level = 1
    /\ fn.arg.model_config[2].level = 3
    /\ fn.arg.model_config[3].level = 3
    /\ fn.out.first.id = fn.arg.model_config[2].id

\* C14: a router built on an empty table raises a configuration error when
\* route_task is called; it does not route by some other table.
C14_EmptyTableSignals ==
    (fn.op = "route_task" /\ fn.done /\ fn.arg.model_config = <<>>) =>
        /\ fn.out.first.raised
        /\ fn.out.first.at = "route_task"

\* C15: with quality evaluation disabled, an executing call that passes the
\* budget gate never calls the judge and makes one completion call; when
\* that call returns, its output is accepted as it is and the run leaves the
\* loop with status executed, the model first chosen and no retry, for every
\* max_retries and every task level.
C15_DisabledSinglePass ==
    \A p \in Threads :
        (~cfg[p].quality_eval_enabled /\ req[p].execute /\ Estimated(p) /\ ~OverBudget(p)) =>
            /\ JudgeIdx(p) = {}
            /\ Cardinality(CompletionIdx(p)) <= 1
            /\ pc[p] # "attempt" => Cardinality(CompletionIdx(p)) = 1
            /\ AfterLoop(p) =>
                /\ result[p].status = "executed"
                /\ result[p].response = ResponseOf(calls[p][1].content)
                /\ result[p].model = ChooseModel(req[p], cfg[p], req[p].task_level)
                /\ result[p].model = calls[p][1].model

\* disabled, five retries configured, level 1: one completion, then returned
C15_Witness ==
    \E p \in Threads :
        /\ Returned(p) /\ ~cfg[p].quality_eval_enabled
        /\ cfg[p].quality_max_retries = 5 /\ req[p].task_level = 1
        /\ Len(calls[p]) = 1
        /\ result[p].status = "executed"

\* the result carries none of the quality fields
QualityFieldsNull(r) ==
    /\ r.quality_score = Nil
    /\ r.quality_reason = <<>>
    /\ r.quality_retries = Nil
    /\ r.original_model = None

\* C16: in every returned result the quality fields quality_score,
\* quality_reason, quality_retries and original_model are all null unless
\* the judge was called in that invocation: so for dry_run and
\* rejected_budget results and for executed results with quality evaluation
\* disabled.
C16_QualityFieldsNull ==
    \A p \in Threads :
        (Returned(p) /\ JudgeIdx(p) = {}) => QualityFieldsNull(result[p])

\* C17: in every returned result and in every row of the store, actual_cost
\* and actual_output_tokens are set only if the status is executed: results
\* and rows with status dry_run, rejected_budget or error have both null.
C17_ActualOnlyIfExecuted ==
    /\ \A p \in Threads :
         Returned(p) =>
            ((result[p].actual_cost # Nil \/ result[p].actual_output_tokens # Nil)
                => result[p].status = "executed")
    /\ \A i \in 1..Len(store) :
         /\ (store[i].actual_cost # Nil \/ store[i].actual_output_tokens # Nil)
                => store[i].status = "executed"
         /\ store[i].status \in {"dry_run", "rejected_budget", "error"}
                => store[i].actual_cost = Nil

\* the provider answered and was paid, then the cumulative-cost read failed:
\* the store holds an executed row with its actual cost and an error row
\* without one
C17_Witness ==
    \E p \in Threads :
        /\ pc[p] = "raised"
        /\ \E i \in RowsOf(p) : store[i].status = "executed" /\ store[i].actual_cost = Some(5)
        /\ \E i \in RowsOf(p) : store[i].status = "error" /\ store[i].actual_cost = Nil

\* the most completion calls the retry loop can make
MaxCompletions(p) == Min(1 + cfg[p].quality_max_retries, 4 - req[p].task_level)

\* C18: the quality-retry loop terminates.  For every sequence of judge
\* scores and every max_retries in 0..5, a call of task level 1..3 makes at
\* most min(1 + max_retries, 4 - task_level) completion calls and none after
\* an attempt was accepted (its score met the threshold); and a run that is
\* in the loop eventually leaves it, for the persist step or the error path.
C18_LoopTerminates ==
    /\ [](\A p \in Threads :
            (pc[p] # "idle") =>
                /\ Cardinality(CompletionIdx(p)) <= MaxCompletions(p)
                /\ \A i \in JudgeIdx(p) :
                     Val(calls[p][i].score) >= cfg[p].quality_threshold => i = Len(calls[p]))
    /\ \A p \in Threads :
         (pc[p] \in {"attempt", "judge"}) ~> (pc[p] \in {"log", "except"})

\* level 1 with five retries allowed: three attempts, all scored below the
\* threshold, and the run has left the loop for the persist step
C18_Witness ==
    \E p \in Threads :
        /\ pc[p] = "log"
        /\ req[p].task_level = 1 /\ cfg[p].quality_max_retries = 5
        /\ Cardinality(CompletionIdx(p)) = 3
        /\ AllScoresBelow(p)

\* the invocation has ended: it returned, or its exception left run_task
Finished(p) == pc[p] \in {"returned", "raised"}

\* a statement of the invocation failed on the database lock: only in the
\* connection's own thread does a statement get that far
LockFailed(p) ==
    /\ SameThread(dbinit.conn_owner, p)
    /\ \/ exc[p] = StoreError
       \/ pc[p] = "raised" /\ error_result[p].cumulative_cost = Nil

\* C19: concurrent appends lose no record.  Row ids are pairwise distinct at
\* all times; every invocation that has returned has its one row in the
\* store; and when all N concurrent invocations have ended, none of them on
\* a locked database, the store holds exactly N rows more than before.
C19_NoLostAppend ==
    /\ \A i, j \in 1..Len(store) : i # j => store[i].id # store[j].id
    /\ \A p \in Threads : Returned(p) => Cardinality(RowsOf(p)) = 1
    /\ (\A p \in Threads : Finished(p) /\ ~LockFailed(p)) =>
          Len(store) = Cardinality(EarlierRows) + NumThreads

\* a step in which worker p serves a route or an estimate request
ServesRouteOrEstimate(p) ==
    pc[p] = "idle" /\ pc'[p] \in {"routed", "estimated"}

\* C20: POST /api/route and POST /api/estimate never append a row to the
\* run store and leave the cumulative cost unchanged, for every input and
\* whatever the other workers are doing: the step that serves one leaves the
\* store as it was, and no row ever carries the trace id of an estimate.
C20_RouteEstimateNoWrite ==
    /\ [][\A p \in Threads :
            ServesRouteOrEstimate(p) =>
                /\ store' = store
                /\ Len(store') = Len(store)
                /\ get_cumulative_cost(store') = get_cumulative_cost(store)]_vars
    /\ [](\A p \in Threads : pc[p] \in {"routed", "estimated"} => RowsOf(p) = {})

\* an estimate and a route were both answered over a store whose earlier row
\* has a cost, and the store is still that one row
C20_Witness ==
    /\ \E p, q \in Threads :
         /\ pc[p] = "estimated" /\ http[p].status_code = 200
         /\ http[p].body.total_cost > 0
         /\ pc[q] = "routed" /\ http[q].status_code = 200
    /\ Len(store) = 1
    /\ get_cumulative_cost(store) > 0

\* estimate has been applied on its own
EstimateDone == fn.op = "estimate" /\ fn.done

\* C21: total_cost equals prompt_cost + completion_cost exactly, in every
\* estimate that TokenEstimator.estimate returns, in every result and error
\* record run_task builds, and in every row of the run store, error rows
\* included.
C21_TotalIsSum ==
    /\ EstimateDone =>
          fn.out.total_cost = fn.out.prompt_cost + fn.out.completion_cost
    /\ \A p \in Threads :
          /\ result[p].total_cost # Nil =>
                Val(result[p].total_cost) =
                    Val(result[p].prompt_cost) + Val(result[p].completion_cost)
          /\ error_result[p].total_cost # Nil =>
                Val(error_result[p].total_cost) =
                    Val(error_result[p].prompt_cost) + Val(error_result[p].completion_cost)
    /\ \A i \in 1..Len(store) :
          store[i].total_cost = store[i].prompt_cost + store[i].completion_cost

\* a run whose row has a prompt cost and a completion cost, both positive,
\* went on to fail and left an error row beside it
C21_Witness ==
    \E p \in Threads : \E i, j \in RowsOf(p) :
        /\ store[i].status = "error"
        /\ store[j].status # "error"
        /\ store[j].prompt_cost > 0
        /\ store[j].completion_cost > 0
        /\ store[j].total_cost = store[j].prompt_cost + store[j].completion_cost

\* the pricing oracle fails for the model of worker p's request
PricingFails(p) ==
    ~cost_per_token(ChooseModel(req[p], cfg[p], req[p].task_level), 0, 0).ok

\* C22: unknown-model pricing is fail-soft.  When the pricing oracle fails
\* for the model id, with its NotFoundError or with any other exception,
\* estimate does not raise and returns zero prompt, completion and total cost
\* with the token counts filled in; and run_task goes past the estimate step:
\* no pricing exception is ever the one it handles, and unless the tokenizer
\* failed its result carries that zero-cost estimate.
C22_PricingFailSoft ==
    /\ (EstimateDone /\ ~cost_per_token(fn.arg.model_name, 0, 0).ok) =>
          /\ fn.out.raised = None
          /\ fn.out.prompt_cost = 0
          /\ fn.out.completion_cost = 0
          /\ fn.out.total_cost = 0
          /\ fn.out.prompt_tokens = count_tokens(fn.arg.prompt_text, fn.arg.model_name)
          /\ fn.out.output_tokens = fn.arg.expected_output_tokens
    /\ \A p \in Threads :
          (pc[p] \notin {"idle", "prepare"} /\ PricingFails(p)) =>
              /\ exc[p].type \notin {"NotFoundError", "RuntimeError"}
              /\ exc[p] # TokenizerError =>
                    /\ result[p].prompt_cost = Some(0)
                    /\ result[p].completion_cost = Some(0)
                    /\ result[p].total_cost = Some(0)
                    /\ result[p].prompt_tokens =
                          Some(count_tokens(compress(req[p].prompt, Nil), result[p].model))
                    /\ result[p].output_tokens = Some(req[p].expected_output_tokens)

\* a run on a model whose pricing fails with another exception than
\* NotFoundError was executed at zero estimated cost and returned
C22_Witness ==
    \E p \in Threads :
        /\ pc[p] = "returned"
        /\ req[p].model_override \in BrokenPricing
        /\ result[p].status = "executed"
        /\ result[p].total_cost = Some(0)
        /\ Val(result[p].prompt_tokens) > 0

\* compress has been applied
CompressDone == fn.op = "compress" /\ fn.done

\* C23: compress is idempotent: without max_tokens, compressing the output
\* of compress gives that output again; and the empty text compresses to the
\* empty text.
C23_CompressIdempotent ==
    (CompressDone /\ fn.arg.max_tokens = Nil) =>
        /\ fn.out.twice = fn.out.once
        /\ fn.arg.prompt_text = <<>> => fn.out.once = <<>>

\* a text with an upper-case stopword, a newline and a trailing blank was
\* compressed to its one content word, and compressing that again changed
\* nothing
C23_Witness ==
    /\ CompressDone
    /\ fn.arg.max_tokens = Nil
    /\ fn.arg.prompt_text = <<"A", "\n", "x", " ">>
    /\ fn.out.once = <<"x">>
    /\ fn.out.twice = <<"x">>

\* the first n whitespace-delimited tokens of the stopword-filtered text
FirstTokens(t, n) ==
    LET words == FilterWords(Split(t), stopwords)
    IN  Join(SubSeq(words, 1, Min(n, Len(words))))

\* C24: whenever max_tokens is given, any integer >= 0, the output of
\* compress is exactly the first max_tokens tokens of the stopword-filtered
\* text, so it never has more than max_tokens tokens.
C24_MaxTokensTruncates ==
    (CompressDone /\ fn.arg.max_tokens # Nil) =>
        /\ fn.out.once = FirstTokens(fn.arg.prompt_text, Val(fn.arg.max_tokens))
        /\ Len(Split(fn.out.once)) <= Val(fn.arg.max_tokens)

\* what a listing with this limit must return from these rows: at most
\* limit rows (none for a limit below 1), strictly decreasing in id, and no
\* row left out has a higher id than a row returned
RecentOk(runs, rows, limit) ==
    /\ Len(runs) <= Max(limit, 0)
    /\ \A i \in 1..Len(runs) : \E k \in 1..Len(rows) : rows[k] = runs[i]
    /\ \A i, j \in 1..Len(runs) : i < j => runs[i].id > runs[j].id
    /\ Len(runs) = Min(Max(limit, 0), Len(rows))
    /\ \A k \in 1..Len(rows) :
         (\A i \in 1..Len(runs) : runs[i] # rows[k]) =>
             \A i \in 1..Len(runs) : rows[k].id < runs[i].id

\* C25: recent(limit) returns at most limit rows, the rows with the highest
\* ids, in strictly decreasing order of id; and the row that a returned
\* run_task appended, no other append having come after it, is the first
\* element of a listing with limit >= 1.
C25_RecentNewestFirst ==
    [][\A p \in Threads :
         (pc[p] = "listing" /\ pc'[p] = "listed" /\ http'[p].status_code = 200) =>
             LET runs  == http'[p].body.runs
                 limit == req[p].limit
             IN  /\ RecentOk(runs, store, limit)
                 /\ \A q \in Threads :
                      (limit >= 1 /\ pc[q] = "returned" /\ store # <<>>
                         /\ store[Len(store)].trace_id = Some(TraceId(q))) =>
                          /\ runs # <<>>
                          /\ runs[1].trace_id = Some(TraceId(q))]_vars

\* C26: in every executed result quality_retries never exceeds the
\* configured max_retries and equals the number of completion calls of the
\* run minus one, and original_model is set only if more than one completion
\* call was made.
C26_RetriesCountCalls ==
    \A p \in Threads :
        (AfterLoop(p) /\ result[p].status = "executed") =>
            /\ Val(result[p].quality_retries) <= cfg[p].quality_max_retries
            /\ Val(result[p].quality_retries) = Cardinality(CompletionIdx(p)) - 1
            /\ result[p].original_model # None => Cardinality(CompletionIdx(p)) > 1

\* the level worker p's loop was at when it made call number i of the run
LevelAtCall(p, i) ==
    req[p].task_level + Cardinality({ k \in CompletionIdx(p) : k <= i }) - 1

\* C27: a model override pins the model.  When model_override is supplied
\* (a non-empty id), router_reason is 'override:<id>', every completion call
\* of the run, the first and every retry, is made with the override id, and
\* the result's model is the override id, which no router table holds; and a
\* score below the threshold at a level below 3, with attempts left, is
\* followed by a retry, made at that same model.
C27_OverridePins ==
    \A p \in Threads :
        (Truthy(req[p].model_override) /\ pc[p] \notin {"idle", "prepare"}) =>
            /\ \A i \in CompletionIdx(p) : calls[p][i].model = req[p].model_override
            /\ Estimated(p) =>
                  /\ result[p].router_reason = <<"override:", req[p].model_override>>
                  /\ result[p].model = req[p].model_override
                  /\ result[p].model \notin TableIds(cfg[p].table)
            /\ \A i \in JudgeIdx(p) :
                  ( /\ calls[p][i].score # Nil
                    /\ Val(calls[p][i].score) < cfg[p].quality_threshold
                    /\ LevelAtCall(p, i) < 3
                    /\ Cardinality({ k \in CompletionIdx(p) : k <= i }) < loc[p].max_attempts ) =>
                      IF i = Len(calls[p])
                      THEN pc[p] = "attempt" /\ loc[p].current_model = req[p].model_override
                      ELSE /\ calls[p][i + 1].kind = "completion"
                           /\ calls[p][i + 1].model = req[p].model_override

\* a run with an override was judged below the threshold at level 1, was
\* retried at the override id, and returned that id as its model
C27_Witness ==
    \E p \in Threads :
        /\ pc[p] = "returned"
        /\ req[p].model_override = "gpt-4o"
        /\ req[p].task_level = 1
        /\ Cardinality(CompletionIdx(p)) >= 2
        /\ \A i \in CompletionIdx(p) : calls[p][i].model = "gpt-4o"
        /\ result[p].model = "gpt-4o"
        /\ Val(result[p].quality_retries) >= 1

\* call number i of worker p's run is a judge reply below the threshold,
\* given while the loop was at level 3
BelowAtLevel3(p, i) ==
    /\ i \in JudgeIdx(p)
    /\ calls[p][i].score # Nil
    /\ Val(calls[p][i].score) < cfg[p].quality_threshold
    /\ LevelAtCall(p, i) = 3

\* C28: when the level is already 3 and the judge score is below the
\* threshold, the attempt is accepted: that judge call is the last call of
\* the run whatever retries remain, quality_retries is not incremented (it
\* stays at the retries made so far), the model stays the one just called,
\* and the result is an executed one.
C28_AcceptAtLevel3 ==
    \A p \in Threads : \A i \in 1..Len(calls[p]) :
        BelowAtLevel3(p, i) =>
            /\ i = Len(calls[p])
            /\ pc[p] \notin {"attempt", "judge"}
            /\ result[p].status = "executed"
            /\ result[p].quality_retries = Some(Cardinality(CompletionIdx(p)) - 1)
            /\ result[p].model = LastCompletion(p).model
            /\ loc[p].current_level = 3

\* a run at level 3 with retries to spare was judged below the threshold on
\* its first attempt and returned after that one completion call
C28_Witness ==
    \E p \in Threads :
        /\ pc[p] = "returned"
        /\ req[p].task_level = 3
        /\ req[p].model_override = None
        /\ cfg[p].quality_max_retries >= 2
        /\ BelowAtLevel3(p, Len(calls[p]))
        /\ Cardinality(CompletionIdx(p)) = 1
        /\ result[p].quality_retries = Some(0)
        /\ result[p].status = "executed"

\* C29: budget_exceeded is true iff total_cost is strictly greater than the
\* effective budget, which is the per-call override whenever one is supplied,
\* an override of 0 included, and the configured default otherwise; the
\* result's budget field is the effective budget; and a total equal to the
\* budget is not exceeded, so that an executing run goes on to execution.
C29_BudgetStrict ==
    \A p \in Threads :
        Estimated(p) =>
            LET effective == IF req[p].budget_override = Nil
                             THEN cfg[p].budget
                             ELSE Val(req[p].budget_override)
                total == Val(result[p].total_cost)
            IN  /\ result[p].budget = Some(effective)
                /\ result[p].budget_exceeded <=> (total > effective)
                /\ (req[p].execute /\ total <= effective) =>
                      result[p].status \in {None, "executed"}
                /\ (total > effective) =>
                      result[p].status = "rejected_budget"

\* an executing run whose estimate equals its budget override exactly was
\* not rejected and returned an executed result
C29_Witness ==
    \E p \in Threads :
        /\ pc[p] = "returned"
        /\ req[p].execute
        /\ req[p].budget_override = Some(4)
        /\ result[p].total_cost = Some(4)
        /\ result[p].budget = Some(4)
        /\ ~result[p].budget_exceeded
        /\ result[p].status = "executed"

\* C30: the response of every result run_task returns is never empty or
\* whitespace-only.  An executed result carries the reply of its last
\* completion call, or the fixed '[Empty response] ...' message when that
\* reply is null, empty or whitespace-only; a dry_run or rejected_budget
\* result carries the placeholder that names its model.
C30_ResponseNeverBlank ==
    \A p \in Threads :
        Returned(p) =>
            /\ Strip(result[p].response) # <<>>
            /\ result[p].status = "executed" =>
                  IF \A k \in 1..Len(LastCompletion(p).content) :
                        IsSpace(LastCompletion(p).content[k])
                  THEN result[p].response = EmptyResponseMessage
                  ELSE result[p].response = LastCompletion(p).content
            /\ result[p].status = "dry_run" =>
                  /\ result[p].response = <<"[Dry-run] Would use ", result[p].model>>
                  /\ result[p].model \notin {None, ""}
            /\ result[p].status = "rejected_budget" =>
                  /\ result[p].response = <<"[Budget exceeded] Would use ", result[p].model>>
                  /\ result[p].model \notin {None, ""}

\* the provider's reply was a single blank and the run returned the fixed
\* message in its place
C30_Witness ==
    \E p \in Threads :
        /\ pc[p] = "returned"
        /\ result[p].status = "executed"
        /\ LastCompletion(p).content = <<" ">>
        /\ result[p].response = EmptyResponseMessage

\* _parse_score has been applied
ParseDone == fn.op = "_parse_score" /\ fn.done

\* C31: judge reply parsing.  A reply that parses as a JSON object whose
\* 'score' converts to an integer yields that integer unchanged (15 stays
\* 15) and its 'reason', or "" when it has none; any other reply in which
\* 'score', ':' or '=' and digits are found yields the smaller of that number
\* and 10; and any other reply yields score 10 with a reason that starts
\* with 'parse_error'.  No reply makes the parser raise.
C31_ParseReply ==
    ParseDone =>
        /\ fn.out.ok
        /\ IF fn.arg.json = "obj" /\ fn.arg.key = "int"
           THEN /\ fn.out.score = fn.arg.n
                /\ fn.out.reason = IF fn.arg.has_reason THEN <<"reason">> ELSE <<"">>
           ELSE IF fn.arg.re_match
           THEN fn.out.score = Min(fn.arg.re_n, 10)
           ELSE /\ fn.out.score = 10
                /\ fn.out.reason[1] = "parse_error: "

\* the fields of a result that the statement names beside the estimate: the
\* response text and the quality fields
NarrativeFields ==
    {"response", "quality_score", "quality_reason", "quality_retries", "original_model"}

\* C32: the row appended by run_task contains every field of the result,
\* the response text and the quality fields score, reason, retry count and
\* original model included, plus a store-assigned sequential id.
C32_RowHoldsEveryField ==
    \A p \in Threads : \A i \in RowsOf(p) :
        (Returned(p) /\ store[i].status # "error") =>
            /\ "id" \in DOMAIN store[i]
            /\ store[i].model = result[p].model
            /\ store[i].total_cost = Val(result[p].total_cost)
            /\ store[i].actual_cost = result[p].actual_cost
            /\ NarrativeFields \subseteq DOMAIN store[i]
            /\ store[i].response = result[p].response
            /\ store[i].quality_score = result[p].quality_score
            /\ store[i].quality_reason = result[p].quality_reason
            /\ store[i].quality_retries = result[p].quality_retries
            /\ store[i].original_model = result[p].original_model

\* C33: when POST /api/run is called with tenant_id and/or caller_id, the
\* row persisted for that call carries those values: once the call has been
\* answered, every row of the run holds the body's tenant_id and caller_id.
C33_RowCarriesAttribution ==
    \A p \in Threads : \A i \in RowsOf(p) :
        http[p].status_code = 200 =>
            /\ store[i].tenant_id = BodyField(req[p], "tenant_id")
            /\ store[i].caller_id = BodyField(req[p], "caller_id")

\* C34: under concurrent run_task invocations that share the cached database
\* handle, the log_id returned to each invocation is the id of the row that
\* this invocation inserted, so no two invocations return the same log_id.
C34_LogIdIsOwnRow ==
    /\ \A p \in Threads :
          Returned(p) =>
              \E i \in RowsOf(p) : store[i].id = Val(result[p].log_id)
    /\ \A p, q \in Threads :
          (Returned(p) /\ Returned(q) /\ p # q) =>
              result[p].log_id # result[q].log_id

\* two invocations were in their store steps side by side: the one in the
\* connection's thread returned the id of its row, after an earlier row's,
\* and the other was refused by the connection and left no row
C34_Witness ==
    \E p, q \in Threads :
        /\ p # q
        /\ Returned(p)
        /\ result[p].log_id = Some(2)
        /\ \E i \in RowsOf(p) : store[i].id = 2
        /\ raised[q] = ThreadError
        /\ RowsOf(q) = {}

\* C35: the run log is append-only. Every step of every operation (run_task,
\* the listing, the cumulative cost, route, estimate, init_db) leaves each
\* existing row as it is and in its place, so the number of rows never goes
\* down, the ids go up strictly in the order of the appends, and the
\* cumulative cost never goes down.
C35_AppendOnly ==
    [][/\ Len(store') >= Len(store)
       /\ \A i \in 1..Len(store) : store'[i] = store[i]
       /\ \A i \in 1..(Len(store') - 1) : store'[i].id < store'[i + 1].id
       /\ \A i \in 1..Len(store') : store'[i].total_cost >= 0
       /\ get_cumulative_cost(store') >= get_cumulative_cost(store)]_vars

\* a process that initialised a database holding an earlier row; the
\* thread of the connection appended the row of its run and then an error
\* row, and the run of the other thread was refused by the connection
C35_Witness ==
    /\ dbinit.body_runs = 1
    /\ Len(store) = 3
    /\ store[1].trace_id = Some(0)
    /\ \E p \in Threads : Cardinality(RowsOf(p)) = 2 /\ http[p] # NoHttp
    /\ \E q \in Threads : raised[q] = ThreadError /\ RowsOf(q) = {}

\* the database is initialised: flag set, lock free, both tables, one
\* schema_version row, the body completed once
IsInitialised(d) ==
    /\ d.INIT_DONE
    /\ d.INIT_LOCK = 0
    /\ d.conn_owner # Nil
    /\ d.tables = {"task_runs", "meta"}
    /\ d.schema_version = 1
    /\ d.body_runs = 1

\* the body of init_db has run to its end in this process: flag set, lock
\* free, connection cached, both tables there
InitCompleted(d) ==
    /\ d.INIT_DONE
    /\ d.INIT_LOCK = 0
    /\ d.conn_owner # Nil
    /\ d.tables = {"task_runs", "meta"}
    /\ d.body_runs = 1

\* C36: init_db under repeated and concurrent calls. Whatever the
\* interleaving, the body (table creation and schema_version row) runs to
\* completion at most once; the call that runs the body returns with the
\* flag set, both tables and one schema_version row; every other call
\* returns, and every operation starts, only after the body has completed;
\* and a call that fails leaves the flag unset and the lock free, so that
\* a later call runs the body again.
C36_InitOnce ==
    [][/\ dbinit'.body_runs <= 1
       /\ \A p \in Threads :
            /\ (pc[p] = "init_tables" /\ pc'[p] = "idle") =>
                   IsInitialised(dbinit')
            /\ (pc[p] = "init_lock" /\ pc'[p] = "idle") =>
                   InitCompleted(dbinit')
            /\ (pc[p] \in {"init_body", "init_tables"} /\ pc'[p] = "init_raised") =>
                   ~dbinit'.INIT_DONE /\ dbinit'.INIT_LOCK = 0
            /\ (pc[p] = "idle" /\ pc'[p] \in {"prepare", "routed", "estimated"}) =>
                   InitCompleted(dbinit)]_vars

\* a call failed to open the database, a later call in another thread ran
\* the body to its end, and that thread then served a run
C36_Witness ==
    /\ \E p \in Threads : pc[p] = "init_raised" /\ raised[p] = StoreError
    /\ \E p \in Threads : pc[p] = "returned" /\ dbinit.conn_owner = Some(p)
    /\ IsInitialised(dbinit)

\* the last judge call of the invocation failed: evaluate answered with its
\* fail-open reason, the call having raised or the reply having no score
JudgeFailed(p) ==
    /\ loc[p].quality_reason # <<>>
    /\ Head(loc[p].quality_reason) \in {"eval_error: ", "parse_error: "}

\* C37: a judge failure never causes a retry or an escalation. When the
\* judge call raised or its reply could not be parsed, the attempt is
\* accepted under every configured threshold: the score is 10, the judge
\* call is the last provider call of the invocation, and no completion
\* call follows it.
C37_JudgeFailureAccepts ==
    \A p \in Threads :
        JudgeFailed(p) =>
            /\ loc[p].quality_score = Some(10)
            /\ cfg[p].quality_threshold \in 1..10
            /\ pc[p] \notin {"attempt", "judge"}
            /\ calls[p][Len(calls[p])].kind = "judge"

\* a level-1 run with retries allowed and the highest threshold: the judge
\* fails after the first completion and the run returns with that attempt
C37_Witness ==
    \E p \in Threads :
        /\ JudgeFailed(p)
        /\ Returned(p)
        /\ req[p].task_level = 1
        /\ cfg[p].quality_threshold = 10
        /\ cfg[p].quality_max_retries > 0
        /\ Cardinality(CompletionIdx(p)) = 1
        /\ result[p].quality_retries = Some(0)

\* C38: a model whose pricing is unknown is never stopped by the budget
\* gate.  For every non-negative effective budget, 0 included, a run on
\* such a model is estimated at total cost 0 and is not found over budget;
\* with execute = true it reaches the completion provider call.
C38_UnpricedPassesGate ==
    \A p \in Threads :
        (Estimated(p) /\ PricingFails(p) /\ EffectiveBudget(req[p], cfg[p]) >= 0) =>
            /\ result[p].total_cost = Some(0)
            /\ ~result[p].budget_exceeded
            /\ result[p].status # "rejected_budget"
            /\ req[p].execute =>
                  \/ pc[p] = "attempt"
                  \/ \E i \in CompletionIdx(p) : calls[p][i].model = "local/unpriced"

\* an executing run on the unpriced model under budget 0 called the provider
\* and returned an executed result
C38_Witness ==
    \E p \in Threads :
        /\ Returned(p)
        /\ PricingFails(p)
        /\ req[p].execute
        /\ req[p].budget_override = Some(0)
        /\ result[p].budget = Some(0)
        /\ result[p].total_cost = Some(0)
        /\ result[p].status = "executed"
        /\ CompletionIdx(p) # {}

\* C39: escalation never moves to a weaker model.  In a run without a model
\* override, the configured level of the model of each completion call is
\* greater than or equal to that of the call before it, whatever the table,
\* a table with no entry for some level in 1..3 included.
C39_EscalationNeverWeaker ==
    \A p \in Threads :
        req[p].model_override = None =>
            \A i, j \in CompletionIdx(p) :
                i < j =>
                    LevelOf(cfg[p].table, calls[p][j].model) >=
                        LevelOf(cfg[p].table, calls[p][i].model)

\* the answer of the estimate-only operation to the input of worker p's call
EstimateOfSameInput(p) == EstimateResponse(p, req[p], cfg[p])

\* C40: estimate-only and dry-run agree.  For the same input text, level,
\* expected tokens, model override and budget, the estimate-only operation
\* answers with the model, router_reason, prompt_tokens, output_tokens,
\* prompt_cost, completion_cost, total_cost, budget and budget_exceeded of
\* the result that run_task returns with execute = false; run_task has
\* appended a row on top of that.
C40_EstimateAgreesWithDryRun ==
    \A p \in Threads :
        (Returned(p) /\ ~req[p].execute) =>
            LET e == EstimateOfSameInput(p)
            IN  /\ e.status_code = 200
                /\ e.body.model = result[p].model
                /\ e.body.router_reason = result[p].router_reason
                /\ Some(e.body.prompt_tokens) = result[p].prompt_tokens
                /\ Some(e.body.output_tokens) = result[p].output_tokens
                /\ Some(e.body.prompt_cost) = result[p].prompt_cost
                /\ Some(e.body.completion_cost) = result[p].completion_cost
                /\ Some(e.body.total_cost) = result[p].total_cost
                /\ Some(e.body.budget) = result[p].budget
                /\ e.body.budget_exceeded = result[p].budget_exceeded
                /\ RowsOf(p) # {}

\* a dry run of a text the compressor shortens, with a model override and
\* a budget override that its estimate exceeds
C40_Witness ==
    \E p \in Threads :
        /\ Returned(p)
        /\ ~req[p].execute
        /\ req[p].prompt = <<"a", " ", "x">>
        /\ req[p].model_override = "gpt-4o"
        /\ req[p].budget_override = Some(0)
        /\ result[p].budget_exceeded
        /\ EstimateOfSameInput(p).body.budget_exceeded
        /\ result[p].prompt_tokens = Some(1)

====
